---- MODULE Spec2Model ----
(***************************************************************************)
(* Model of the KGraph synchronization engine (kgraphmemory/kgraph.py)     *)
(* over its paired stores: the pyoxigraph quad store wrapped by            *)
(* KGraphRDFDB and the Qdrant point store wrapped by KGraphVectorDB.       *)
(***************************************************************************)
EXTENDS Integers, Sequences, FiniteSets, TLC

-----------------------------------------------------------------------------
(* Bounds of the model *)

\* number of mutating calls made on the graph in one behaviour
MaxOps == 3

\* largest limit passed to hybrid_search
MaxLimit == 2

\* number of mutating calls that precede the searches of SpecSearch
MaxSearchOps == 2

\* number of objects handed to add_object and add_objects in one behaviour of
\* SpecFault
MaxFaultOps == 3

\* number of add_triple and remove_triple calls in one behaviour of SpecTriples
MaxTripleOps == 3

\* number of mutating calls that precede the batch reads of SpecRead
MaxReadOps == 2

\* longest list of URIs passed to get_objects_batch
MaxUris == 2

\* longest str value written and read back in SpecRoundTrip
MaxLen == 3

\* number of add_object and update_object calls in one behaviour of
\* SpecInterleave
MaxInterleaveOps == 2

\* longest property value of the projection texts of SpecProjection
MaxText == 3

\* number of properties written in one behaviour of SpecDatatype
MaxWrites == 2

\* number of calls made on the KGraphMemory and its graphs in one behaviour of
\* SpecMemory
MaxMemoryOps == 5

\* number of add_object and remove_object calls that fill the graph before
\* the pair of adds of SpecCommute
MaxCommuteOps == 2

\* number of add_object calls that fill the graph before the two
\* update_object calls of SpecWriters
MaxSetupOps == 1

-----------------------------------------------------------------------------
(* Vocabulary *)

\* Python None
None == "None"

RDF_TYPE == "http://www.w3.org/1999/02/22-rdf-syntax-ns#type"
VITAL_TYPE == "http://vital.ai/ontology/vital-core#vitaltype"
XSD_STRING == "http://www.w3.org/2001/XMLSchema#string"

hasName == "http://vital.ai/ontology/vital-core#hasName"
hasDescription == "http://vital.ai/ontology/vital-core#hasDescription"
hasEdgeDestination == "http://vital.ai/ontology/vital-core#hasEdgeDestination"

\* the named graph of the one KGraph instance
graph_uri == "urn:graph"

\* object URIs the callers use
URIs == {"urn:a", "urn:b"}

\* URIs no object is ever added under: "urn:c" gets triples but no type,
\* "urn:d" gets nothing
OtherURIs == {"urn:c", "urn:d"}

\* class URIs of the objects: T1 has projections, T0 has none
T1 == "urn:T1"
T0 == "urn:T0"
Types == {T1, T0}

\* values of the properties the callers set (None: property not set)
NameVals == {None, "", "x"}
DescVals == {None, "z"}

\* the concrete GraphObject instances passed to the graph: versions of
\* "urn:a", which may hold an edge to "urn:b", and versions of "urn:b"
GraphObjects ==
    [URI : {"urn:a"}, type : Types, name : NameVals, desc : DescVals, ref : {None, "urn:b"}]
    \cup [URI : {"urn:b"}, type : {T1}, name : {"", "x"}, desc : {None}, ref : {None}]

-----------------------------------------------------------------------------
(* Projection config: default_vector_mappings.py *)

\* custom mappings handed to KGraph.__init__: type -> vector_id -> property URIs
vector_mappings ==
    [t \in {T1} |-> [v \in {"general", "description"} |->
        IF v = "general" THEN <<hasName, hasDescription>> ELSE <<hasDescription>>]]

\* insertion order of the vector ids of a mapping dict
VectorIdOrder == <<"general", "description">>

get_vector_mappings_for_type(type_uri) ==
    IF type_uri \in DOMAIN vector_mappings THEN vector_mappings[type_uri] ELSE <<>>

get_available_vector_ids_for_type(type_uri) ==
    SelectSeq(VectorIdOrder, LAMBDA v : v \in DOMAIN get_vector_mappings_for_type(type_uri))

Range(seq) == {seq[i] : i \in DOMAIN seq}

-----------------------------------------------------------------------------
(* Triple store: kgraph_rdf_db.py *)

NamedNode(s) == [kind |-> "NamedNode", value |-> s, datatype |-> ""]
Literal(s, dt) == [kind |-> "Literal", value |-> s, datatype |-> dt]

\* term.startswith('http://') or 'https://' or 'urn:'
HasIriScheme(s) == s \in URIs \cup OtherURIs \cup Types \cup {graph_uri, RDF_TYPE, VITAL_TYPE, hasName, hasDescription, hasEdgeDestination}

\* _to_rdf_term on a str
to_rdf_term(term, allow_literal, force_named_node) ==
    IF force_named_node \/ HasIriScheme(term) THEN NamedNode(term)
    ELSE IF allow_literal THEN Literal(term, XSD_STRING)
    ELSE NamedNode(term)

Quad(s, p, o, g) == <<s, p, o, g>>

\* add_triple: subject, predicate and graph are str; obj is a term (a str
\* object is converted by the caller with to_rdf_term(obj, TRUE, FALSE), a
\* Literal passes through); returns the new store (set semantics)
add_triple(store, subject, predicate, obj, graph) ==
    store \cup {Quad(to_rdf_term(subject, FALSE, FALSE),
                     to_rdf_term(predicate, FALSE, TRUE),
                     obj,
                     to_rdf_term(graph, FALSE, TRUE))}

\* what add_triple returns when store.add did not raise: "return True"
add_triple_returns(store, subject, predicate, obj, graph) == TRUE

\* the None wildcard of a pattern
Wildcard == [kind |-> "None", value |-> "", datatype |-> ""]

\* quads_for_pattern: None is the wildcard
quads_for_pattern(store, s, p, o, g) ==
    {q \in store : /\ (s = Wildcard \/ q[1] = s)
                   /\ (p = Wildcard \/ q[2] = p)
                   /\ (o = Wildcard \/ q[3] = o)
                   /\ (g = Wildcard \/ q[4] = g)}

\* "_to_rdf_term(x, ...) if x is not None else None"
Pat(x, allow_literal, force_named_node) ==
    IF x = None THEN Wildcard ELSE to_rdf_term(x, allow_literal, force_named_node)

\* remove_triple(subject, predicate, obj, graph): the store without the matches
remove_triple(store, subject, predicate, obj, graph) ==
    store \ quads_for_pattern(store, Pat(subject, FALSE, FALSE), Pat(predicate, FALSE, TRUE),
                              Pat(obj, TRUE, FALSE), Pat(graph, FALSE, TRUE))

\* what remove_triple returns: len(matching_quads)
remove_triple_returns(store, subject, predicate, obj, graph) ==
    Cardinality(quads_for_pattern(store, Pat(subject, FALSE, FALSE), Pat(predicate, FALSE, TRUE),
                                  Pat(obj, TRUE, FALSE), Pat(graph, FALSE, TRUE)))

get_triples(store, subject, graph) ==
    quads_for_pattern(store, Pat(subject, FALSE, FALSE), Wildcard, Wildcard, Pat(graph, FALSE, TRUE))

\* _create_typed_literal for a str-typed property
create_typed_literal(value) == Literal(value, XSD_STRING)

\* _properties of the object: property URI -> value
Properties(o) ==
    [p \in {hasName, hasDescription, hasEdgeDestination} |->
        IF p = hasName THEN o.name ELSE IF p = hasDescription THEN o.desc ELSE o.ref]

\* _add_property_triple: nothing for a None value, a reference for a URIRef
\* property, a typed literal otherwise
add_property_triple(store, subject_uri, prop_uri, value, graph) ==
    IF value = None THEN store
    ELSE IF prop_uri = hasEdgeDestination
         THEN add_triple(store, subject_uri, prop_uri, to_rdf_term(value, TRUE, FALSE), graph)
         ELSE add_triple(store, subject_uri, prop_uri, create_typed_literal(value), graph)

add_graph_object_triples(store, o, graph) ==
    LET s1 == add_triple(store, o.URI, RDF_TYPE, to_rdf_term(o.type, TRUE, FALSE), graph)
        s2 == add_triple(s1, o.URI, VITAL_TYPE, to_rdf_term(o.type, TRUE, FALSE), graph)
        s3 == add_property_triple(s2, o.URI, hasName, Properties(o)[hasName], graph)
        s4 == add_property_triple(s3, o.URI, hasDescription, Properties(o)[hasDescription], graph)
    IN  add_property_triple(s4, o.URI, hasEdgeDestination, Properties(o)[hasEdgeDestination], graph)

\* the None result of get_graph_object
NoObject == {}

\* VitalSigns().from_triples: the object rebuilt from the triples of one
\* subject (here: its triples), None when they name no class to build
from_triples(triples) ==
    IF \E q \in triples : q[2] \in {NamedNode(RDF_TYPE), NamedNode(VITAL_TYPE)}
    THEN triples ELSE NoObject

\* get_graph_object: None when the subject has no triples in the graph,
\* otherwise what VitalSigns rebuilds from them
get_graph_object(store, subject_uri, graph) ==
    LET triples == get_triples(store, subject_uri, graph)
    IN  IF triples = {} THEN NoObject ELSE from_triples(triples)

\* get_graph_objects_batch that gives up on the whole batch when one URI
\* has no triples
get_graph_objects_batch_all_or_nothing(store, subject_uris, graph) ==
    LET all_triples == [u \in Range(subject_uris) |->
                          quads_for_pattern(store, NamedNode(u), Wildcard, Wildcard,
                                            NamedNode(graph))]
    IN  IF \E u \in DOMAIN all_triples : all_triples[u] = {} THEN <<>>
        ELSE [u \in {w \in DOMAIN all_triples : from_triples(all_triples[w]) # NoObject} |->
                from_triples(all_triples[u])]

\* get_graph_objects_batch: URI -> rebuilt object, for the URIs of the list
\* that have triples in the graph and rebuild to an object
get_graph_objects_batch(store, subject_uris, graph) ==
    LET found == {u \in Range(subject_uris) :
                    quads_for_pattern(store, NamedNode(u), Wildcard, Wildcard,
                                      NamedNode(graph)) # {}}
        all_triples == [u \in found |->
                          quads_for_pattern(store, NamedNode(u), Wildcard, Wildcard,
                                            NamedNode(graph))]
    IN  [u \in {w \in found : from_triples(all_triples[w]) # NoObject} |->
            from_triples(all_triples[u])]

\* sparql_ask of the query hybrid_search builds:
\*   ASK { GRAPH <graph> { <subject> ?p ?o . fragment } }
\* A fragment is modelled by its kind:
\*   "po":        FILTER(?p = <pred> && ?o = obj), constrains the bound subject
\*   "exists":    the ground pattern <subj> <pred> obj, independent of the subject
\*   "malformed": not SPARQL; store.query raises and sparql_ask returns False
Fragments ==
    [kind : {"po"}, subj : {None}, pred : {RDF_TYPE}, obj : {NamedNode(T1)}]
    \cup [kind : {"po"}, subj : {None}, pred : {hasName}, obj : {Literal("x", XSD_STRING)}]
    \cup [kind : {"exists"}, subj : {"urn:a"}, pred : {RDF_TYPE}, obj : {NamedNode(T1)}]
    \cup [kind : {"malformed"}, subj : {None}, pred : {None}, obj : {Wildcard}]

sparql_ask(store, graph, subject, fragment) ==
    IF fragment.kind = "malformed" THEN FALSE
    ELSE \E q \in store :
            /\ q[1] = NamedNode(subject)
            /\ q[4] = NamedNode(graph)
            /\ IF fragment.kind = "po"
               THEN q[2] = NamedNode(fragment.pred) /\ q[3] = fragment.obj
               ELSE Quad(NamedNode(fragment.subj), NamedNode(fragment.pred),
                         fragment.obj, NamedNode(graph)) \in store

\* the queries passed to sparql_query, by kind:
\*   "subjects":  SELECT DISTINCT ?s WHERE { GRAPH <graph_uri> { ?s ?p ?o } }
\*   "malformed": not SPARQL; store.query raises
Queries == {[kind |-> "subjects"], [kind |-> "malformed"]}

\* the solutions of the "subjects" query: the subjects of the graph
Solutions(store, graph) == {q[1] : q \in {r \in store : r[4] = NamedNode(graph)}}

\* str() of a NamedNode
str_of_named_node(term) == "<" \o term.value \o ">"

\* sparql_query that lets the exception of store.query out: the caller gets
\* the error instead of a list of bindings
sparql_query_propagates(store, graph, query, order) ==
    IF query.kind = "malformed" THEN <<[error |-> "SyntaxError"]>>
    ELSE [i \in DOMAIN order |-> [s |-> str_of_named_node(order[i])]]

\* sparql_query: one binding per solution, in the order the store yields
\* them; the empty list when store.query raises
sparql_query(store, graph, query, order) ==
    IF query.kind = "malformed" THEN <<>>
    ELSE [i \in DOMAIN order |-> [s |-> str_of_named_node(order[i])]]

-----------------------------------------------------------------------------
(* Typed literals on the way into the store and back: kgraph_rdf_db.py *)

XSD_DATETIME == "http://www.w3.org/2001/XMLSchema#dateTime"
XSD_INTEGER == "http://www.w3.org/2001/XMLSchema#integer"
XSD_FLOAT == "http://www.w3.org/2001/XMLSchema#float"
XSD_BOOLEAN == "http://www.w3.org/2001/XMLSchema#boolean"

\* the characters of the str values: a letter, the apostrophe, the double
\* quote and the backslash; a text is a sequence of them
Chars == {"x", "'", "\"", "\\"}
Texts == UNION {[1..n -> Chars] : n \in 0..MaxLen}

\* the property values: a Python value is its type name and the text str()
\* gives for it
PyValue(type, text) == [type |-> type, text |-> text]
PropertyValues ==
    {PyValue("str", t) : t \in Texts}
    \cup {PyValue("int", <<"4", "2">>), PyValue("float", <<"3", ".", "5">>),
          PyValue("bool", <<"True">>), PyValue("bool", <<"False">>)}

\* str(value).lower() on the texts of the model
lower(text) ==
    IF text = <<"True">> THEN <<"true">> ELSE IF text = <<"False">> THEN <<"false">> ELSE text

\* _create_typed_literal: the datatype from the name of the Python type
create_typed_literal_for(value) ==
    IF value.type = "datetime" THEN Literal(value.text, XSD_DATETIME)
    ELSE IF value.type = "int" THEN Literal(value.text, XSD_INTEGER)
    ELSE IF value.type = "float" THEN Literal(value.text, XSD_FLOAT)
    ELSE IF value.type = "bool" THEN Literal(lower(value.text), XSD_BOOLEAN)
    ELSE Literal(value.text, XSD_STRING)

RECURSIVE escape(_)
\* the escapes of str() of a pyoxigraph Literal (N-Triples): \" and \\
escape(text) ==
    IF text = <<>> THEN <<>>
    ELSE (IF Head(text) \in {"\"", "\\"} THEN <<"\\", Head(text)>> ELSE <<Head(text)>>)
         \o escape(Tail(text))

\* str(quad.subject), str(quad.object) of get_triples: <iri>, "text" for an
\* xsd:string literal, "text"^^<datatype> for the other literals
str_of_term(term) ==
    IF term.kind = "NamedNode" THEN <<"<", term.value, ">">>
    ELSE <<"\"">> \o escape(term.value) \o <<"\"">>
         \o (IF term.datatype = XSD_STRING THEN <<>> ELSE <<"^^<", term.datatype, ">">>)

RECURSIVE lstrip(_, _)
lstrip(text, chars) ==
    IF text # <<>> /\ Head(text) \in chars THEN lstrip(Tail(text), chars) ELSE text

RECURSIVE rstrip(_, _)
rstrip(text, chars) ==
    IF text # <<>> /\ text[Len(text)] \in chars
    THEN rstrip(SubSeq(text, 1, Len(text) - 1), chars) ELSE text

\* str.strip(chars)
strip_chars(text, chars) == rstrip(lstrip(text, chars), chars)

RDFLibURIRef(uri) == [kind |-> "URIRef", value |-> uri, datatype |-> None]
RDFLibLiteral(value, datatype) == [kind |-> "RDFLibLiteral", value |-> value, datatype |-> datatype]

\* _parse_stored_literal
parse_stored_literal(stored_literal) ==
    IF \E i \in DOMAIN stored_literal : stored_literal[i] = "^^<"
    THEN LET i == CHOOSE k \in DOMAIN stored_literal :
                     /\ stored_literal[k] = "^^<"
                     /\ \A j \in 1..(k - 1) : stored_literal[j] # "^^<"
             value_part == SubSeq(stored_literal, 1, i - 1)
             datatype_part == SubSeq(stored_literal, i + 1, Len(stored_literal))
             value == strip_chars(strip_chars(value_part, {"\""}), {"'"})
             datatype_uri == rstrip(datatype_part, {">"})
         IN  RDFLibLiteral(value, datatype_uri[1])
    ELSE LET clean_value == strip_chars(strip_chars(strip_chars(stored_literal, {"<", ">"}),
                                                    {"\""}), {"'"})
         IN  RDFLibLiteral(clean_value, None)

\* _to_rdflib_term on the str a triple of get_triples holds
to_rdflib_term(term_str) ==
    IF term_str # <<>> /\ Head(term_str) = "<" /\ term_str[Len(term_str)] = ">"
    THEN RDFLibURIRef(strip_chars(term_str, {"<", ">"})[1])
    ELSE parse_stored_literal(term_str)

\* Literal.toPython(), which VitalSigns sets the property from: the Python
\* value of the lexical form under the datatype
to_python(literal) ==
    IF literal.datatype = XSD_INTEGER THEN PyValue("int", literal.value)
    ELSE IF literal.datatype = XSD_FLOAT THEN PyValue("float", literal.value)
    ELSE IF literal.datatype = XSD_BOOLEAN
         THEN PyValue("bool", IF literal.value = <<"true">> THEN <<"True">>
                              ELSE IF literal.value = <<"false">> THEN <<"False">>
                              ELSE literal.value)
    ELSE PyValue("str", literal.value)

\* the triples add_graph_object_triples writes for an object with the one
\* property hasName = value
add_typed_object_triples(store, object_uri, class_uri, value, graph) ==
    LET s1 == add_triple(store, object_uri, RDF_TYPE, to_rdf_term(class_uri, TRUE, FALSE), graph)
        s2 == add_triple(s1, object_uri, VITAL_TYPE, to_rdf_term(class_uri, TRUE, FALSE), graph)
    IN  add_triple(s2, object_uri, hasName, create_typed_literal_for(value), graph)

\* get_graph_object on such an object: the URI and the values of hasName
\* that from_triples is handed
get_typed_object(store, subject_uri, graph) ==
    LET triples == get_triples(store, subject_uri, graph)
    IN  [URI |-> {to_rdflib_term(str_of_term(q[1])).value : q \in triples},
         values |-> {to_python(to_rdflib_term(str_of_term(q[3]))) :
                        q \in {r \in triples : r[2] = NamedNode(hasName)}}]

-----------------------------------------------------------------------------
(* The datatype of a written property: kgraph_rdf_db.py *)

XSD_DATE == "http://www.w3.org/2001/XMLSchema#date"
XSD_LONG == "http://www.w3.org/2001/XMLSchema#long"
XSD_DOUBLE == "http://www.w3.org/2001/XMLSchema#double"

\* the XSD datatype URIs a hint can be
XsdUris == {XSD_STRING, XSD_DATETIME, XSD_DATE, XSD_INTEGER, XSD_LONG, XSD_FLOAT, XSD_DOUBLE,
            XSD_BOOLEAN}

\* names of hint classes, as sequences of characters: the Python types and
\* the property classes named after the ontology datatypes
ClassNames ==
    {<<"d", "a", "t", "e", "t", "i", "m", "e">>,
     <<"d", "a", "t", "e">>,
     <<"i", "n", "t">>,
     <<"f", "l", "o", "a", "t">>,
     <<"b", "o", "o", "l">>,
     <<"s", "t", "r">>,
     <<"D", "a", "t", "e", "T", "i", "m", "e">>,
     <<"D", "a", "t", "e">>,
     <<"L", "o", "n", "g">>,
     <<"I", "n", "t", "e", "g", "e", "r">>,
     <<"D", "o", "u", "b", "l", "e">>,
     <<"F", "l", "o", "a", "t">>,
     <<"B", "o", "o", "l", "e", "a", "n">>,
     <<"S", "t", "r", "i", "n", "g">>}

\* the datatype hints of rdf_data["datatype"]:
\*   "class":  a class (it has __name__), known by its name
\*   "rdflib": an rdflib URIRef (it has toPython), known by its URI
\*   "str":    a str, here the URI of an XSD datatype ("http...")
Hints ==
    [kind : {"class"}, name : ClassNames, uri : {None}]
    \cup [kind : {"rdflib", "str"}, name : {<<>>}, uri : {XSD_LONG, XSD_BOOLEAN, XSD_DATE}]

\* the values written under a hint: str(value)
HintValues == {<<"4", "2">>, <<"True">>}

\* str.lower() of one character of the names
lower_char(c) ==
    CASE c = "B" -> "b" [] c = "D" -> "d" [] c = "F" -> "f" [] c = "I" -> "i"
      [] c = "L" -> "l" [] c = "S" -> "s" [] c = "T" -> "t" [] OTHER -> c

\* str.lower() of a name
lower_name(name) == [i \in DOMAIN name |-> lower_char(name[i])]

\* sub in name
contains(name, sub) ==
    \E i \in 0..(Len(name) - Len(sub)) : SubSeq(name, i + 1, i + Len(sub)) = sub

\* datatype.startswith('http') for a str hint
startswith_http(uri) == uri \in XsdUris

\* _create_typed_literal(value, datatype): what _add_property_triple writes
\* for a literal property; text is str(value)
create_typed_literal_hint(text, datatype) ==
    IF datatype.kind \in {"rdflib", "str"} /\ startswith_http(datatype.uri)
    THEN Literal(text, datatype.uri)
    ELSE LET datatype_name == lower_name(datatype.name)
         IN  IF contains(datatype_name, <<"d", "a", "t", "e", "t", "i", "m", "e">>)
             THEN Literal(text, XSD_DATETIME)
             ELSE IF contains(datatype_name, <<"i", "n", "t">>) THEN Literal(text, XSD_INTEGER)
             ELSE IF contains(datatype_name, <<"f", "l", "o", "a", "t">>) THEN Literal(text, XSD_FLOAT)
             ELSE IF contains(datatype_name, <<"b", "o", "o", "l">>)
                  THEN Literal(lower(text), XSD_BOOLEAN)
             ELSE Literal(text, XSD_STRING)

\* _get_typed_literal: the literal for a property whose class is named
\* class_name; no caller in the package
get_typed_literal(class_name, text) ==
    IF contains(class_name, <<"D", "a", "t", "e", "T", "i", "m", "e">>) THEN Literal(text, XSD_DATETIME)
    ELSE IF contains(class_name, <<"D", "a", "t", "e">>) THEN Literal(text, XSD_DATE)
    ELSE IF contains(class_name, <<"L", "o", "n", "g">>) \/ contains(class_name, <<"I", "n", "t", "e", "g", "e", "r">>)
         THEN Literal(text, XSD_LONG)
    ELSE IF contains(class_name, <<"D", "o", "u", "b", "l", "e">>) \/ contains(class_name, <<"F", "l", "o", "a", "t">>)
         THEN Literal(text, XSD_DOUBLE)
    ELSE IF contains(class_name, <<"B", "o", "o", "l", "e", "a", "n">>) THEN Literal(lower(text), XSD_BOOLEAN)
    ELSE Literal(text, XSD_STRING)

\* _add_property_triple for a literal property: rdf_data is the value and the
\* datatype hint of to_rdf()
add_property_triple_hint(store, subject_uri, prop_uri, rdf_data, graph) ==
    add_triple(store, subject_uri, prop_uri,
               create_typed_literal_hint(rdf_data.value, rdf_data.datatype), graph)

-----------------------------------------------------------------------------
(* Vector store: kgraph_vector_db.py *)

\* embedding_model.vectorize(text): a function of the text only
vectorize(text) == <<"embedding", text>>

\* client.upsert of one point: insert or overwrite at record_id
add_vector(points, vector, metadata, record_id, original_text) ==
    LET payload == [metadata EXCEPT !.original_text = original_text]
    IN  [i \in DOMAIN points \cup {record_id} |->
            IF i = record_id THEN [vector |-> vector, payload |-> payload] ELSE points[i]]

\* add_text that does not pass record_id on: add_vector draws a fresh uuid4
add_text_fresh_id(points, text, metadata, record_id) ==
    add_vector(points, vectorize(text), metadata,
               "uuid4-" \o ToString(Cardinality(DOMAIN points)), text)

add_text(points, text, metadata, record_id) ==
    add_vector(points, vectorize(text), metadata, record_id, text)

\* outcomes of client.delete for an id the collection does not hold: the
\* in-memory Qdrant client either ignores the id or raises (KeyError),
\* depending on the installed qdrant-client
MissingDeleteOutcomes == {"ignore", "raise"}

\* delete(record_id): [points, raised]
delete(points, record_id, missing) ==
    IF record_id \in DOMAIN points
    THEN [points |-> [i \in DOMAIN points \ {record_id} |-> points[i]], raised |-> FALSE]
    ELSE [points |-> points, raised |-> (missing = "raise")]

\* get_by_id: the record, or None (here the empty set of records)
get_by_id(points, record_id) ==
    IF record_id \in DOMAIN points THEN {points[record_id]} ELSE {}

count(points) == Cardinality(DOMAIN points)

-----------------------------------------------------------------------------
(* Synchronization engine: kgraph.py *)

\* uuid.uuid5(NAMESPACE_URL, name) rendered as str: a function of the name,
\* one-to-one on the names of the model, never equal to the name itself
uuid5(name) == "uuid5(" \o name \o ")"

\* f"{object_uri}#{vector_id}"
combined_string(object_uri, vector_id) == object_uri \o "#" \o vector_id

\* str.strip() on the values of the model
strip(value) == IF value = " " THEN "" ELSE value

RECURSIVE join(_)
\* ' '.join(text_parts)
join(text_parts) ==
    IF text_parts = <<>> THEN ""
    ELSE IF Len(text_parts) = 1 THEN text_parts[1]
    ELSE text_parts[1] \o " " \o join(Tail(text_parts))

\* _get_all_property_uris_from_mappings
get_all_property_uris_from_mappings(mappings) ==
    UNION {Range(mappings[v]) : v \in DOMAIN mappings}

\* property_values built from to_json(): the mapped properties the object has
property_values(o) ==
    LET all_prop_uris == get_all_property_uris_from_mappings(get_vector_mappings_for_type(o.type))
    IN  [p \in {q \in all_prop_uris : Properties(o)[q] # None} |-> Properties(o)[p]]

\* the text of one projection: trimmed non-empty str values in declared order
vector_text(o, vector_property_uris) ==
    LET pv == property_values(o)
        kept == SelectSeq(vector_property_uris, LAMBDA p : p \in DOMAIN pv /\ strip(pv[p]) # "")
    IN  join([i \in DOMAIN kept |-> strip(pv[kept[i]])])

\* _graph_object_to_vector_data: one (vector_id, vector_text, metadata) per
\* vector id of the type, in mapping order
graph_object_to_vector_data(o) ==
    LET mappings == get_vector_mappings_for_type(o.type)
        ids == get_available_vector_ids_for_type(o.type)
    IN  [i \in DOMAIN ids |->
            [vector_id |-> ids[i],
             vector_text |-> vector_text(o, mappings[ids[i]]),
             metadata |-> [uri |-> o.URI, type |-> o.type, graph_uri |-> graph_uri,
                           props |-> property_values(o),
                           vector_id |-> ids[i],
                           vector_property_uris |-> mappings[ids[i]],
                           original_record_id |-> None,
                           original_text |-> None]]]

\* the record id add_object stores a projection under
add_record_id(object_uri, vector_id) == uuid5(combined_string(object_uri, vector_id))

\* the record id update_object, remove_object and get_object_vectors address
lookup_record_id(object_uri, vector_id) == combined_string(object_uri, vector_id)

RECURSIVE add_vectors(_, _, _)
\* the loop of add_object over vector_data_list
add_vectors(points, object_uri, vector_data_list) ==
    IF vector_data_list = <<>> THEN points
    ELSE LET d == Head(vector_data_list)
             metadata == [d.metadata EXCEPT
                            !.original_record_id = combined_string(object_uri, d.vector_id)]
             next == IF d.vector_text # ""
                     THEN add_text(points, d.vector_text, metadata,
                                   add_record_id(object_uri, d.vector_id))
                     ELSE points
         IN  add_vectors(next, object_uri, Tail(vector_data_list))

\* add_object that rebuilds the registry with the entry of its object only
add_object_resets_registry(S, o) ==
    [rdf |-> add_graph_object_triples(S.rdf, o, graph_uri),
     points |-> add_vectors(S.points, o.URI, graph_object_to_vector_data(o)),
     registry |-> [u \in {o.URI} |-> o.type],
     ret |-> TRUE]

\* add_object on the state S = [rdf, points, registry]; the result carries ret
add_object(S, o) ==
    [rdf |-> add_graph_object_triples(S.rdf, o, graph_uri),
     points |-> add_vectors(S.points, o.URI, graph_object_to_vector_data(o)),
     registry |-> [u \in DOMAIN S.registry \cup {o.URI} |->
                     IF u = o.URI THEN o.type ELSE S.registry[u]],
     ret |-> TRUE]

RECURSIVE delete_all(_, _, _, _)
\* the loop "for vector_id in vector_ids: vector_store.delete(...)":
\* [points, raised], stopping at the first delete that raises
delete_all(points, object_uri, vector_ids, missing) ==
    IF vector_ids = <<>> THEN [points |-> points, raised |-> FALSE]
    ELSE LET d == delete(points, lookup_record_id(object_uri, Head(vector_ids)), missing)
         IN  IF d.raised THEN d
             ELSE delete_all(d.points, object_uri, Tail(vector_ids), missing)

\* update_object that does not remove the triples of the subject first
update_object_keeps_triples(S, o, missing) ==
    LET d == delete_all(S.points, o.URI, get_available_vector_ids_for_type(o.type), missing)
    IN  IF d.raised
        THEN [rdf |-> S.rdf, points |-> d.points, registry |-> S.registry, ret |-> FALSE]
        ELSE add_object([rdf |-> S.rdf, points |-> d.points, registry |-> S.registry], o)

\* update_object that, like remove_object, also removes the triples that have
\* the URI as object
update_object_severs_inbound(S, o, missing) ==
    LET rdf1 == remove_triple(S.rdf, o.URI, None, None, graph_uri)
        rdf2 == remove_triple(rdf1, None, None, o.URI, graph_uri)
        d == delete_all(S.points, o.URI, get_available_vector_ids_for_type(o.type), missing)
    IN  IF d.raised
        THEN [rdf |-> rdf2, points |-> d.points, registry |-> S.registry, ret |-> FALSE]
        ELSE add_object([rdf |-> rdf2, points |-> d.points, registry |-> S.registry], o)

update_object(S, o, missing) ==
    LET rdf1 == remove_triple(S.rdf, o.URI, None, None, graph_uri)
        d == delete_all(S.points, o.URI, get_available_vector_ids_for_type(o.type), missing)
    IN  IF d.raised
        THEN [rdf |-> rdf1, points |-> d.points, registry |-> S.registry, ret |-> FALSE]
        ELSE add_object([rdf |-> rdf1, points |-> d.points, registry |-> S.registry], o)

\* remove_object that removes the triples of the subject only
remove_object_keeps_inbound(S, object_uri, missing) ==
    LET rdf1 == remove_triple(S.rdf, object_uri, None, None, graph_uri)
        vector_ids == IF object_uri \in DOMAIN S.registry
                      THEN get_available_vector_ids_for_type(S.registry[object_uri])
                      ELSE <<>>
        d == delete_all(S.points, object_uri, vector_ids, missing)
    IN  IF d.raised
        THEN [rdf |-> rdf1, points |-> d.points, registry |-> S.registry, ret |-> FALSE]
        ELSE [rdf |-> rdf1, points |-> d.points,
              registry |-> [u \in DOMAIN S.registry \ {object_uri} |-> S.registry[u]],
              ret |-> TRUE]

\* remove_object that, for a URI without registry entry, deletes every vector
\* record whose payload names the URI
remove_object_sweeps_vectors(S, object_uri, missing) ==
    LET rdf1 == remove_triple(S.rdf, object_uri, None, None, graph_uri)
        rdf2 == remove_triple(rdf1, None, None, object_uri, graph_uri)
        vector_ids == IF object_uri \in DOMAIN S.registry
                      THEN get_available_vector_ids_for_type(S.registry[object_uri])
                      ELSE <<>>
        d == delete_all(S.points, object_uri, vector_ids, missing)
        kept == {i \in DOMAIN d.points : d.points[i].payload.uri # object_uri}
    IN  IF d.raised
        THEN [rdf |-> rdf2, points |-> d.points, registry |-> S.registry, ret |-> FALSE]
        ELSE [rdf |-> rdf2,
              points |-> IF object_uri \in DOMAIN S.registry THEN d.points
                         ELSE [i \in kept |-> d.points[i]],
              registry |-> [u \in DOMAIN S.registry \ {object_uri} |-> S.registry[u]],
              ret |-> TRUE]

remove_object(S, object_uri, missing) ==
    LET rdf1 == remove_triple(S.rdf, object_uri, None, None, graph_uri)
        rdf2 == remove_triple(rdf1, None, None, object_uri, graph_uri)
        vector_ids == IF object_uri \in DOMAIN S.registry
                      THEN get_available_vector_ids_for_type(S.registry[object_uri])
                      ELSE <<>>
        d == delete_all(S.points, object_uri, vector_ids, missing)
    IN  IF d.raised
        THEN [rdf |-> rdf2, points |-> d.points, registry |-> S.registry, ret |-> FALSE]
        ELSE [rdf |-> rdf2, points |-> d.points,
              registry |-> [u \in DOMAIN S.registry \ {object_uri} |-> S.registry[u]],
              ret |-> TRUE]

\* get_object_vectors: vector_id -> record, for the ids get_by_id finds
get_object_vectors(S, object_uri) ==
    IF object_uri \notin DOMAIN S.registry THEN <<>>
    ELSE LET vector_ids == Range(get_available_vector_ids_for_type(S.registry[object_uri]))
             found == {v \in vector_ids :
                         get_by_id(S.points, lookup_record_id(object_uri, v)) # {}}
         IN  [v \in found |-> S.points[lookup_record_id(object_uri, v)]]

-----------------------------------------------------------------------------
(* Projection text, character by character: kgraph.py *)

\* the characters of the property values: a letter and the blank
TextChars == {"x", " "}
ProjectionTexts == UNION {[1..n -> TextChars] : n \in 0..MaxText}

\* the values obj_data holds for a property: a str, a list, a number, null
JsonValues ==
    {PyValue("str", t) : t \in ProjectionTexts}
    \cup {PyValue("list", <<"x">>), PyValue("int", <<"4">>), PyValue("NoneType", <<>>)}

\* obj_data restricted to the mapped properties: property URI -> value, for
\* the properties the JSON of the object has
JsonObjects ==
    UNION {[props -> JsonValues] : props \in SUBSET {hasName, hasDescription}}

\* value.strip()
strip_text(text) == strip_chars(text, {" "})

RECURSIVE text_parts_untrimmed(_, _)
\* text_parts that appends the value as it is
text_parts_untrimmed(values, vector_property_uris) ==
    IF vector_property_uris = <<>> THEN <<>>
    ELSE LET prop_uri == Head(vector_property_uris)
             rest == text_parts_untrimmed(values, Tail(vector_property_uris))
         IN  IF prop_uri \in DOMAIN values
                /\ values[prop_uri].type = "str" /\ strip_text(values[prop_uri].text) # <<>>
             THEN <<values[prop_uri].text>> \o rest
             ELSE rest

RECURSIVE text_parts(_, _)
\* the loop over vector_property_uris: the stripped value of each property
\* that is in property_values, is a str and is not blank
text_parts(values, vector_property_uris) ==
    IF vector_property_uris = <<>> THEN <<>>
    ELSE LET prop_uri == Head(vector_property_uris)
             rest == text_parts(values, Tail(vector_property_uris))
         IN  IF prop_uri \in DOMAIN values
                /\ values[prop_uri].type = "str" /\ strip_text(values[prop_uri].text) # <<>>
             THEN <<strip_text(values[prop_uri].text)>> \o rest
             ELSE rest

RECURSIVE join_text(_)
\* ' '.join(text_parts) if text_parts else ''
join_text(parts) ==
    IF parts = <<>> THEN <<>>
    ELSE IF Len(parts) = 1 THEN parts[1]
    ELSE parts[1] \o <<" ">> \o join_text(Tail(parts))

\* vector_text of one vector id
projection_text(values, vector_property_uris) ==
    join_text(text_parts(values, vector_property_uris))

\* the property entries of base_metadata: every mapped property whose value
\* is not None
projection_payload(values) ==
    [p \in {q \in DOMAIN values : values[q].type # "NoneType"} |-> values[p]]

-----------------------------------------------------------------------------
(* Search: kgraph_vector_db.py search_by_vector, kgraph.py hybrid_search *)

\* metadata filters of the callers: key -> exact value; <<>> is "no filter"
Filters == {<<>>, [vector_id |-> "general"]}

\* _build_filter with exact-match clauses, ANDed
matches(payload, filters) == \A k \in DOMAIN filters : payload[k] = filters[k]

\* all orders of a set of ids: the score order the embedding model induces
Orders(ids) ==
    {f \in [1..Cardinality(ids) -> ids] : \A i, j \in DOMAIN f : i # j => f[i] # f[j]}

Take(seq, n) == SubSeq(seq, 1, IF n < Len(seq) THEN n ELSE Len(seq))

\* search_by_text: the best `limit` matching points in score order
search_by_text(points, order, limit, filters) ==
    LET hits == SelectSeq(order, LAMBDA i : matches(points[i].payload, filters))
        top == Take(hits, limit)
    IN  [k \in DOMAIN top |-> [id |-> top[k], metadata |-> points[top[k]].payload,
                               rdf_data |-> NoObject]]

\* "no sparql_filter" (None or the empty string)
NoFragment == [kind |-> "none", subj |-> None, pred |-> None, obj |-> Wildcard]

RECURSIVE filter_results(_, _, _, _, _)
\* the loop of hybrid_search over vector_results
filter_results(S, vector_results, sparql_filter, limit, filtered_results) ==
    IF vector_results = <<>> THEN filtered_results
    ELSE LET result == Head(vector_results)
             object_uri == result.id
         IN  IF sparql_ask(S.rdf, graph_uri, object_uri, sparql_filter)
             THEN LET kept == Append(filtered_results,
                                 [result EXCEPT !.rdf_data =
                                     get_graph_object(S.rdf, object_uri, graph_uri)])
                  IN  IF Len(kept) >= limit THEN kept
                      ELSE filter_results(S, Tail(vector_results), sparql_filter, limit, kept)
             ELSE filter_results(S, Tail(vector_results), sparql_filter, limit, filtered_results)

\* hybrid_search that returns the over-fetched candidates uncut
hybrid_search_uncut(S, order, sparql_filter, vector_filters, limit) ==
    LET vector_results == search_by_text(S.points, order, limit * 2, vector_filters)
    IN  IF sparql_filter = NoFragment THEN vector_results
        ELSE filter_results(S, vector_results, sparql_filter, limit, <<>>)

\* hybrid_search that never applies the structural fragment
hybrid_search_unfiltered(S, order, sparql_filter, vector_filters, limit) ==
    Take(search_by_text(S.points, order, limit * 2, vector_filters), limit)

hybrid_search(S, order, sparql_filter, vector_filters, limit) ==
    LET vector_results == search_by_text(S.points, order, limit * 2, vector_filters)
    IN  IF sparql_filter = NoFragment THEN Take(vector_results, limit)
        ELSE filter_results(S, vector_results, sparql_filter, limit, <<>>)

\* the filters argument of vector_search_by_type: None (here <<>>), a filter
\* on another payload field, and a filter that names a vector_id itself
TypeFilters == {<<>>, [type |-> T1], [vector_id |-> "description"]}

\* filters with filters['vector_id'] = vector_id
with_vector_id(filters, vector_id) ==
    [k \in DOMAIN filters \cup {"vector_id"} |->
        IF k = "vector_id" THEN vector_id ELSE filters[k]]

\* vector_search_by_type that keeps a vector_id the caller put in filters
vector_search_by_type_caller_wins(points, order, vector_id, limit, filters) ==
    search_by_text(points, order, limit,
                   IF "vector_id" \in DOMAIN filters THEN filters
                   ELSE with_vector_id(filters, vector_id))

vector_search_by_type(points, order, vector_id, limit, filters) ==
    search_by_text(points, order, limit, with_vector_id(filters, vector_id))

-----------------------------------------------------------------------------
(* add_object and add_objects when a sub-step raises *)

\* the sub-step of one add_object call that raises:
\*   "none":     nothing raises
\*   "triple":   the triple store raises on every write of the call (an object
\*               URI pyoxigraph rejects as an IRI); add_triple catches it
\*   "derive":   _graph_object_to_vector_data raises (a mapping of the
\*               type -> [property] shape has no .items())
\*   "vector:v": vector_store.add_text raises for the projection v
NoFault == "none"
Faults == {NoFault, "triple", "derive", "vector:general", "vector:description"}

\* add_graph_object_triples when store.add may raise: add_triple returns False
\* for each quad, nothing is written, and the caller is told True
add_graph_object_triples_under(store, o, graph, fault) ==
    IF fault = "triple" THEN store ELSE add_graph_object_triples(store, o, graph)

RECURSIVE add_vectors_under(_, _, _, _)
\* the loop of add_object over vector_data_list: [points, raised], leaving
\* the loop at the add_text that raises
add_vectors_under(points, object_uri, vector_data_list, fault) ==
    IF vector_data_list = <<>> THEN [points |-> points, raised |-> FALSE]
    ELSE LET d == Head(vector_data_list)
             metadata == [d.metadata EXCEPT
                            !.original_record_id = combined_string(object_uri, d.vector_id)]
         IN  IF d.vector_text = ""
             THEN add_vectors_under(points, object_uri, Tail(vector_data_list), fault)
             ELSE IF fault = "vector:" \o d.vector_id
                  THEN [points |-> points, raised |-> TRUE]
                  ELSE add_vectors_under(add_text(points, d.vector_text, metadata,
                                                  add_record_id(object_uri, d.vector_id)),
                                         object_uri, Tail(vector_data_list), fault)

\* add_object with its try/except: the triples, then the projections, then
\* the registry; an exception that reaches the except clause gives False
add_object_under(S, o, fault) ==
    LET rdf1 == add_graph_object_triples_under(S.rdf, o, graph_uri, fault)
        v == add_vectors_under(S.points, o.URI, graph_object_to_vector_data(o), fault)
    IN  IF fault = "derive"
        THEN [rdf |-> rdf1, points |-> S.points, registry |-> S.registry, ret |-> FALSE]
        ELSE IF v.raised
        THEN [rdf |-> rdf1, points |-> v.points, registry |-> S.registry, ret |-> FALSE]
        ELSE [rdf |-> rdf1, points |-> v.points,
              registry |-> [u \in DOMAIN S.registry \cup {o.URI} |->
                              IF u = o.URI THEN o.type ELSE S.registry[u]],
              ret |-> TRUE]

RECURSIVE add_objects_stop_at_failure(_, _, _, _)
\* add_objects that leaves the loop at the first add_object that fails
add_objects_stop_at_failure(S, graph_objects, faults, success_count) ==
    IF graph_objects = <<>>
    THEN [rdf |-> S.rdf, points |-> S.points, registry |-> S.registry, ret |-> TRUE,
          count |-> success_count]
    ELSE LET R == add_object_under(S, Head(graph_objects), Head(faults))
             S1 == [rdf |-> R.rdf, points |-> R.points, registry |-> R.registry]
         IN  IF R.ret
             THEN add_objects_stop_at_failure(S1, Tail(graph_objects), Tail(faults),
                                              success_count + 1)
             ELSE [rdf |-> S1.rdf, points |-> S1.points, registry |-> S1.registry,
                   ret |-> TRUE, count |-> success_count]

RECURSIVE add_objects(_, _, _, _)
\* add_objects: add_object on each element in list order, counting the True
\* returns; faults[i] is what raises during the i-th add_object
add_objects(S, graph_objects, faults, success_count) ==
    IF graph_objects = <<>>
    THEN [rdf |-> S.rdf, points |-> S.points, registry |-> S.registry, ret |-> TRUE,
          count |-> success_count]
    ELSE LET R == add_object_under(S, Head(graph_objects), Head(faults))
             S1 == [rdf |-> R.rdf, points |-> R.points, registry |-> R.registry]
         IN  add_objects(S1, Tail(graph_objects), Tail(faults),
                         IF R.ret THEN success_count + 1 ELSE success_count)

-----------------------------------------------------------------------------
(* update_object, one store call at a time: kgraph.py, kgraph_rdf_db.py *)

\* store.remove(quad) that removes nothing
remove_quad_keeps(store, quad) == store

\* store.remove(quad)
remove_quad(store, quad) == store \ {quad}

\* the add_triple calls of add_graph_object_triples for o, in call order:
\* the two class triples, then one per property that has a value
add_triple_calls(o) ==
    SelectSeq(<<[predicate |-> RDF_TYPE, obj |-> to_rdf_term(o.type, TRUE, FALSE), value |-> o.type],
                [predicate |-> VITAL_TYPE, obj |-> to_rdf_term(o.type, TRUE, FALSE), value |-> o.type],
                [predicate |-> hasName, obj |-> create_typed_literal(o.name), value |-> o.name],
                [predicate |-> hasDescription, obj |-> create_typed_literal(o.desc),
                 value |-> o.desc],
                [predicate |-> hasEdgeDestination,
                 obj |-> IF o.ref = None THEN Wildcard ELSE to_rdf_term(o.ref, TRUE, FALSE),
                 value |-> o.ref]>>,
              LAMBDA c : c.value # None)

-----------------------------------------------------------------------------
(* Bridge-level delete: kgraph_bridge_utilities.py *)

\* whether a GraphObject instance can be a dict key: VitalSigns' GraphObject
\* either keeps object.__hash__ or defines __eq__ without __hash__
Hashable == BOOLEAN

\* KGraph.remove_object handed a GraphObject instance instead of a URI str.
\* Unhashable: _object_registry.get raises TypeError, the except clause
\* returns False. Hashable: the registry has no such key; _to_rdf_term raises
\* ValueError for a term that is no str, inside the try of remove_triple,
\* which removes nothing and returns 0, twice; no vector id is looked up;
\* pop finds nothing; True is returned.
remove_object_of_instance(S, hashable) ==
    [rdf |-> S.rdf, points |-> S.points, registry |-> S.registry, ret |-> hashable]

\* the edge query of delete_object_and_edges: "SELECT ?edge WHERE {..} UNION
\* {..}", a UNION outside the group pattern, which is not SPARQL
edge_query == [kind |-> "malformed"]

\* delete_object_and_edges: KGraph has no delete_object_by_uri, so the
\* fallback branches run; each edge found is read and handed to
\* remove_object as an instance inside a bare try/except (no effect on the
\* stores), then the object itself is read and handed to remove_object
delete_object_and_edges(S, object_uri, hashable) ==
    LET edge_results == sparql_query(S.rdf, graph_uri, edge_query, <<>>)
        obj == get_graph_object(S.rdf, object_uri, graph_uri)
    IN  IF obj # NoObject
        THEN remove_object_of_instance(S, hashable)
        ELSE [rdf |-> S.rdf, points |-> S.points, registry |-> S.registry, ret |-> FALSE]

-----------------------------------------------------------------------------
(* Memory manager: kgraph_memory.py, kgraph_bridge.py *)

\* graph ids the callers use
GraphIds == {"g1", "g2"}

\* KGraph.__init__: a new triple store, a new vector store, an empty registry
KGraph_init == [rdf |-> {}, points |-> <<>>, registry |-> <<>>]

\* KGraphMemory.__init__: no bridges, no graphs
KGraphMemory_init == [bridges |-> <<>>, kgraphs |-> <<>>]

\* self._bridges[graph_id] = value
put(map, key, value) == [k \in DOMAIN map \cup {key} |-> IF k = key THEN value ELSE map[k]]

\* del self._bridges[graph_id]
del(map, key) == [k \in DOMAIN map \ {key} |-> map[k]]

\* create_kgraph_bridge that replaces the bridge registered under graph_id
create_kgraph_bridge_overwrites(M, graph_id) ==
    [bridges |-> put(M.bridges, graph_id, KGraph_init),
     kgraphs |-> put(M.kgraphs, graph_id, KGraph_init),
     raised |-> None]

\* create_kgraph_bridge: ValueError for a registered graph_id; otherwise a new
\* KGraph in _kgraphs and a new KGraphBridge, with a KGraph of its own, in
\* _bridges
create_kgraph_bridge(M, graph_id) ==
    IF graph_id \in DOMAIN M.bridges
    THEN [bridges |-> M.bridges, kgraphs |-> M.kgraphs, raised |-> "ValueError"]
    ELSE [bridges |-> put(M.bridges, graph_id, KGraph_init),
          kgraphs |-> put(M.kgraphs, graph_id, KGraph_init),
          raised |-> None]

\* KGraph.clear: both stores and the registry emptied
clear(S) == [rdf |-> {}, points |-> <<>>, registry |-> <<>>]

\* remove_kgraph_bridge: the graph of _kgraphs is cleared and dropped, the
\* bridge is dropped; False for an unknown graph_id
remove_kgraph_bridge(M, graph_id) ==
    IF graph_id \in DOMAIN M.bridges
    THEN [bridges |-> del(M.bridges, graph_id), kgraphs |-> del(M.kgraphs, graph_id),
          ret |-> TRUE]
    ELSE [bridges |-> M.bridges, kgraphs |-> M.kgraphs, ret |-> FALSE]

\* the stores of the result of a call
Stores(R) == [rdf |-> R.rdf, points |-> R.points, registry |-> R.registry]

\* a memory whose graphs all work on the same stores (one Store and one
\* collection behind every KGraph): what a call leaves is seen by each bridge
on_graph_shared_stores(M, graph_id, S) ==
    [M EXCEPT !.bridges = [g \in DOMAIN M.bridges |-> S]]

\* the memory after a call on the KGraph of the bridge under graph_id left
\* the stores S: rdf_store, vector_store and _object_registry belong to the
\* instance, so only that KGraph has them
on_graph(M, graph_id, S) ==
    [M EXCEPT !.bridges[graph_id] = S]

-----------------------------------------------------------------------------
(* The state machine: one KGraph instance and the calls made on it *)

VARIABLES
    rdf_store,          \* KGraph.rdf_store: the set of quads
    vector_store,       \* KGraph.vector_store: record id -> point
    object_registry,    \* KGraph._object_registry: URI -> type
    lastCall,           \* the last call made: its arguments, what it returned, and
                        \* whether it repeats the call before it
    before,             \* the stores as they were when the last call started
    missing_delete,     \* what the installed Qdrant client does on deleting an unknown id
    nops,               \* number of mutating calls made so far
    memory,             \* the KGraphMemory: _bridges and _kgraphs, graph_id -> the stores
                        \* of the KGraph instance held there
    writer,             \* the update_object call in progress: its position, its
                        \* argument and the triple store it started on
    writers             \* thread -> the update_object call that thread is in, where
                        \* two threads call update_object on the same KGraph

vars == <<rdf_store, vector_store, object_registry, lastCall, before, missing_delete, nops,
          memory, writer, writers>>

State == [rdf |-> rdf_store, points |-> vector_store, registry |-> object_registry]

NoGraphObject == [URI |-> None, type |-> None, name |-> None, desc |-> None, ref |-> None]

\* the value of a call record that holds no statistics
NoStats ==
    [total_kgraph_bridges |-> 0, kgraph_bridge_ids |-> {}, total_rdf_triples |-> 0,
     total_vector_records |-> 0, total_objects |-> 0]

\* the threads that call update_object
Threads == {1, 2}

\* no update_object call in progress
Idle == [pc |-> "idle", obj |-> NoGraphObject, k |-> 0, matching |-> {}, rdf_before |-> {}]

NoCall ==
    [op |-> "none", obj |-> NoGraphObject, uri |-> None,
     fragment |-> NoFragment, filters |-> <<>>, limit |-> 0,
     ret |-> TRUE, repeat |-> FALSE, results |-> <<>>,
     fault |-> NoFault, objs |-> <<>>, faults |-> <<>>, count |-> 0,
     quad |-> <<>>, query |-> [kind |-> "none"], uris |-> <<>>, objects |-> <<>>,
     value |-> [type |-> "none", text |-> <<>>], readback |-> [URI |-> {}, values |-> {}],
     vector_id |-> None,
     graph_id |-> None, raised |-> None, memory_before |-> KGraphMemory_init,
     object |-> NoObject, hashable |-> TRUE, order |-> <<>>,
     hint |-> [kind |-> "none", name |-> <<>>, uri |-> None], literal |-> Wildcard,
     values |-> <<>>, text |-> <<>>, payload |-> <<>>, at |-> Idle,
     serial |-> TRUE, stats |-> NoStats, new_quad |-> <<>>, filters_after |-> <<>>]

Init ==
    /\ rdf_store = {}
    /\ vector_store = <<>>
    /\ object_registry = <<>>
    /\ lastCall = NoCall
    /\ before = [rdf |-> {}, points |-> <<>>, registry |-> <<>>]
    /\ missing_delete \in MissingDeleteOutcomes
    /\ nops = 0
    /\ memory = KGraphMemory_init
    /\ writer = Idle
    /\ writers = [t \in Threads |-> Idle]

Commit(R, call) ==
    /\ rdf_store' = R.rdf
    /\ vector_store' = R.points
    /\ object_registry' = R.registry
    /\ lastCall' = [call EXCEPT !.ret = R.ret,
                                !.repeat = (lastCall.op = call.op /\ lastCall.obj = call.obj
                                            /\ lastCall.uri = call.uri)]
    /\ before' = State
    /\ nops' = nops + 1
    /\ UNCHANGED <<writers, missing_delete, memory, writer>>

AddObject(o) ==
    /\ nops < MaxOps
    /\ Commit(add_object(State, o), [NoCall EXCEPT !.op = "add_object", !.obj = o, !.uri = o.URI])

UpdateObject(o) ==
    /\ nops < MaxOps
    /\ Commit(update_object(State, o, missing_delete),
              [NoCall EXCEPT !.op = "update_object", !.obj = o, !.uri = o.URI])

RemoveObject(uri) ==
    /\ nops < MaxOps
    /\ Commit(remove_object(State, uri, missing_delete),
              [NoCall EXCEPT !.op = "remove_object", !.uri = uri])

Next ==
    \/ \E o \in GraphObjects : AddObject(o)
    \/ \E o \in GraphObjects : UpdateObject(o)
    \/ \E u \in URIs : RemoveObject(u)

Spec == Init /\ [][Next]_vars

\* the searches, run on the stores a few adds and removes have filled
HybridSearch(order, sparql_filter, vector_filters, limit) ==
    /\ lastCall' = [NoCall EXCEPT !.op = "hybrid_search", !.fragment = sparql_filter,
                                  !.filters = vector_filters, !.limit = limit,
                                  !.results = hybrid_search(State, order, sparql_filter,
                                                            vector_filters, limit)]
    /\ before' = State
    /\ UNCHANGED <<writers, rdf_store, vector_store, object_registry, missing_delete, nops, memory, writer>>

SparqlQuery(query, order) ==
    /\ lastCall' = [NoCall EXCEPT !.op = "sparql_query", !.query = query,
                                  !.results = sparql_query(rdf_store, graph_uri, query, order)]
    /\ before' = State
    /\ UNCHANGED <<writers, rdf_store, vector_store, object_registry, missing_delete, nops, memory, writer>>

VectorSearchByType(order, vector_id, filters, limit) ==
    /\ lastCall' = [NoCall EXCEPT !.op = "vector_search_by_type", !.vector_id = vector_id,
                                  !.filters = filters, !.limit = limit,
                                  !.results = vector_search_by_type(vector_store, order,
                                                                    vector_id, limit, filters)]
    /\ before' = State
    /\ UNCHANGED <<writers, rdf_store, vector_store, object_registry, missing_delete, nops, memory, writer>>

SearchAddObject(o) == nops < MaxSearchOps /\ AddObject(o)

SearchRemoveObject(uri) == nops < MaxSearchOps /\ RemoveObject(uri)

NextSearch ==
    \/ \E o \in GraphObjects : SearchAddObject(o)
    \/ \E u \in URIs : SearchRemoveObject(u)
    \/ \E order \in Orders(DOMAIN vector_store), f \in Fragments \cup {NoFragment},
          vf \in Filters, limit \in 1..MaxLimit :
            HybridSearch(order, f, vf, limit)
    \/ \E query \in Queries, order \in Orders(Solutions(rdf_store, graph_uri)) :
            SparqlQuery(query, order)

SpecSearch == Init /\ [][NextSearch]_vars

\* hybrid_search with the score order of the call kept in the call record
HybridSelect(order, sparql_filter, vector_filters, limit) ==
    /\ lastCall' = [NoCall EXCEPT !.op = "hybrid_search", !.fragment = sparql_filter,
                                  !.filters = vector_filters, !.limit = limit,
                                  !.order = order,
                                  !.results = hybrid_search(State, order, sparql_filter,
                                                            vector_filters, limit)]
    /\ before' = State
    /\ UNCHANGED <<writers, rdf_store, vector_store, object_registry, missing_delete, nops, memory, writer>>

NextSelect ==
    \/ \E o \in GraphObjects : SearchAddObject(o)
    \/ \E u \in URIs : SearchRemoveObject(u)
    \/ \E order \in Orders(DOMAIN vector_store), f \in Fragments, vf \in Filters,
          limit \in 1..MaxLimit :
            HybridSelect(order, f, vf, limit)

SpecSelect == Init /\ [][NextSelect]_vars

\* the searches for one vector id, on stores filled the same way
NextTypeSearch ==
    \/ \E o \in GraphObjects : SearchAddObject(o)
    \/ \E u \in URIs : SearchRemoveObject(u)
    \/ \E order \in Orders(DOMAIN vector_store), v \in Range(VectorIdOrder),
          vf \in TypeFilters, limit \in 1..MaxLimit :
            VectorSearchByType(order, v, vf, limit)

SpecTypeSearch == Init /\ [][NextTypeSearch]_vars

\* the objects of the calls during which a sub-step raises
FaultObjects ==
    {o \in GraphObjects : /\ o.type = T1 /\ o.ref = None
                          /\ <<o.URI, o.name, o.desc>> \in {<<"urn:a", "x", "z">>,
                                                            <<"urn:a", "", None>>,
                                                            <<"urn:b", "x", None>>}}

\* the (object, fault) pairs of the elements of a batch
BatchObjects == {o \in FaultObjects : o.name = "x"}
BatchFaults == {NoFault, "triple", "vector:general"}

\* the lists of n elements over a set
Lists(set, n) == [1..n -> set]

AddObjectUnder(o, fault) ==
    /\ nops < MaxFaultOps
    /\ Commit(add_object_under(State, o, fault),
              [NoCall EXCEPT !.op = "add_object", !.obj = o, !.uri = o.URI, !.fault = fault])

AddObjects(graph_objects, faults) ==
    /\ nops + Len(graph_objects) <= MaxFaultOps
    /\ LET R == add_objects(State, graph_objects, faults, 0)
       IN  /\ rdf_store' = R.rdf
           /\ vector_store' = R.points
           /\ object_registry' = R.registry
           /\ lastCall' = [NoCall EXCEPT !.op = "add_objects", !.objs = graph_objects,
                                         !.faults = faults, !.count = R.count]
           /\ before' = State
           /\ nops' = nops + Len(graph_objects)
           /\ UNCHANGED <<writers, missing_delete, memory, writer>>

NextFault ==
    \/ \E o \in FaultObjects, fault \in Faults : AddObjectUnder(o, fault)
    \/ \E n \in 0..MaxFaultOps :
          \E graph_objects \in Lists(BatchObjects, n), faults \in Lists(BatchFaults, n) :
              AddObjects(graph_objects, faults)

SpecFault == Init /\ [][NextFault]_vars

\* the calls made on the triple store directly (KGraph.rdf_store)
TripleSubjects == URIs
TriplePredicates == {hasName, hasEdgeDestination}
\* objects as the str the caller passes: two literals and a reference
TripleObjects == {"x", "y", "urn:b"}

AddTriple(subject, predicate, obj) ==
    /\ nops < MaxTripleOps
    /\ rdf_store' = add_triple(rdf_store, subject, predicate,
                               to_rdf_term(obj, TRUE, FALSE), graph_uri)
    /\ lastCall' = [NoCall EXCEPT
                      !.op = "add_triple",
                      !.quad = Quad(to_rdf_term(subject, FALSE, FALSE),
                                    to_rdf_term(predicate, FALSE, TRUE),
                                    to_rdf_term(obj, TRUE, FALSE),
                                    to_rdf_term(graph_uri, FALSE, TRUE)),
                      !.ret = add_triple_returns(rdf_store, subject, predicate,
                                                 to_rdf_term(obj, TRUE, FALSE), graph_uri)]
    /\ before' = State
    /\ nops' = nops + 1
    /\ UNCHANGED <<writers, vector_store, object_registry, missing_delete, memory, writer>>

RemoveTriple(subject, predicate, obj) ==
    /\ nops < MaxTripleOps
    /\ rdf_store' = remove_triple(rdf_store, subject, predicate, obj, graph_uri)
    /\ lastCall' = [NoCall EXCEPT
                      !.op = "remove_triple",
                      !.quad = <<subject, predicate, obj, graph_uri>>,
                      !.count = remove_triple_returns(rdf_store, subject, predicate,
                                                      obj, graph_uri)]
    /\ before' = State
    /\ nops' = nops + 1
    /\ UNCHANGED <<writers, vector_store, object_registry, missing_delete, memory, writer>>

NextTriples ==
    \/ \E s \in TripleSubjects, p \in TriplePredicates, o \in TripleObjects :
          AddTriple(s, p, o)
    \/ \E s \in TripleSubjects \cup {None}, p \in TriplePredicates \cup {None},
          o \in TripleObjects \cup {None} :
          RemoveTriple(s, p, o)

SpecTriples == Init /\ [][NextTriples]_vars

\* the reads of several objects at once, on a graph that holds objects and
\* the untyped triples of "urn:c"
ReadObjects == {o \in GraphObjects : o.type = T1 /\ o.ref = None}

ReadAddObject(o) == nops < MaxReadOps /\ AddObject(o)

ReadRemoveObject(uri) == nops < MaxReadOps /\ RemoveObject(uri)

ReadAddTriple(subject, predicate, obj) == nops < MaxReadOps /\ AddTriple(subject, predicate, obj)

GetObjectsBatch(object_uris) ==
    /\ lastCall' = [NoCall EXCEPT
                      !.op = "get_objects_batch", !.uris = object_uris,
                      !.objects = get_graph_objects_batch(rdf_store, object_uris, graph_uri)]
    /\ before' = State
    /\ UNCHANGED <<writers, rdf_store, vector_store, object_registry, missing_delete, nops, memory, writer>>

NextRead ==
    \/ \E o \in ReadObjects : ReadAddObject(o)
    \/ \E u \in URIs : ReadRemoveObject(u)
    \/ ReadAddTriple("urn:c", hasName, "x")
    \/ \E n \in 0..MaxUris : \E object_uris \in Lists(URIs \cup OtherURIs, n) :
          GetObjectsBatch(object_uris)

SpecRead == Init /\ [][NextRead]_vars

\* one object with a typed property written to an empty graph and read back
AddTypedObject(value) ==
    /\ nops = 0
    /\ rdf_store' = add_typed_object_triples(rdf_store, "urn:a", T0, value, graph_uri)
    /\ object_registry' = [u \in {"urn:a"} |-> T0]
    /\ lastCall' = [NoCall EXCEPT !.op = "add_object", !.uri = "urn:a", !.value = value]
    /\ before' = State
    /\ nops' = nops + 1
    /\ UNCHANGED <<writers, vector_store, missing_delete, memory, writer>>

\* get_object; the value last written is kept in the call record
GetTypedObject(uri) ==
    /\ lastCall.op = "add_object"
    /\ lastCall' = [NoCall EXCEPT !.op = "get_object", !.uri = uri, !.value = lastCall.value,
                                  !.readback = get_typed_object(rdf_store, uri, graph_uri)]
    /\ before' = State
    /\ UNCHANGED <<writers, rdf_store, vector_store, object_registry, missing_delete, nops, memory, writer>>

NextRoundTrip ==
    \/ \E value \in PropertyValues : AddTypedObject(value)
    \/ GetTypedObject("urn:a")

SpecRoundTrip == Init /\ [][NextRoundTrip]_vars

\* an update_object call that runs one store call at a time, and get_object
\* calls of another thread between its steps
InterleaveObjects == ReadObjects

InterleaveAddObject(o) ==
    /\ writer = Idle
    /\ nops < MaxInterleaveOps
    /\ AddObject(o)

\* update_object is entered: remove_triple lists the quads of the subject
UpdateMatch(o) ==
    /\ writer = Idle
    /\ nops < MaxInterleaveOps
    /\ writer' = [pc |-> IF get_triples(rdf_store, o.URI, graph_uri) = {}
                         THEN "delete" ELSE "remove",
                  obj |-> o, k |-> 0,
                  matching |-> get_triples(rdf_store, o.URI, graph_uri),
                  rdf_before |-> rdf_store]
    /\ nops' = nops + 1
    /\ UNCHANGED <<writers, rdf_store, vector_store, object_registry, lastCall, before, missing_delete,
                   memory>>

\* remove_triple removes one of the listed quads
UpdateRemoveQuad(quad) ==
    /\ writer.pc = "remove"
    /\ quad \in writer.matching
    /\ rdf_store' = remove_quad(rdf_store, quad)
    /\ writer' = [writer EXCEPT !.matching = writer.matching \ {quad},
                                !.pc = IF writer.matching = {quad} THEN "delete" ELSE "remove"]
    /\ UNCHANGED <<writers, vector_store, object_registry, lastCall, before, missing_delete, nops, memory>>

\* the vector records are deleted; a delete that raises ends the call
UpdateDeleteVectors ==
    /\ writer.pc = "delete"
    /\ LET d == delete_all(vector_store, writer.obj.URI,
                           get_available_vector_ids_for_type(writer.obj.type), missing_delete)
       IN  /\ vector_store' = d.points
           /\ writer' = IF d.raised THEN Idle ELSE [writer EXCEPT !.pc = "add_triple"]
    /\ UNCHANGED <<writers, rdf_store, object_registry, lastCall, before, missing_delete, nops, memory>>

\* add_object, called by update_object, makes its next add_triple call
UpdateAddTriple ==
    /\ writer.pc = "add_triple"
    /\ writer.k < Len(add_triple_calls(writer.obj))
    /\ LET call == add_triple_calls(writer.obj)[writer.k + 1]
       IN  rdf_store' = add_triple(rdf_store, writer.obj.URI, call.predicate, call.obj, graph_uri)
    /\ writer' = [writer EXCEPT !.k = writer.k + 1]
    /\ UNCHANGED <<writers, vector_store, object_registry, lastCall, before, missing_delete, nops, memory>>

\* add_object writes the vector records and the registry entry and returns
UpdateAddVectors ==
    /\ writer.pc = "add_triple"
    /\ writer.k = Len(add_triple_calls(writer.obj))
    /\ vector_store' = add_vectors(vector_store, writer.obj.URI,
                                   graph_object_to_vector_data(writer.obj))
    /\ object_registry' = put(object_registry, writer.obj.URI, writer.obj.type)
    /\ writer' = Idle
    /\ UNCHANGED <<writers, rdf_store, lastCall, before, missing_delete, nops, memory>>

\* get_object(uri) of the reader: one get_triples on the store as it is
GetObject(uri) ==
    /\ lastCall' = [NoCall EXCEPT !.op = "get_object", !.uri = uri, !.at = writer,
                                  !.object = get_graph_object(rdf_store, uri, graph_uri)]
    /\ before' = State
    /\ UNCHANGED <<writers, rdf_store, vector_store, object_registry, missing_delete, nops, memory, writer>>

NextInterleave ==
    \/ \E o \in InterleaveObjects : InterleaveAddObject(o)
    \/ \E o \in InterleaveObjects : UpdateMatch(o)
    \/ \E quad \in rdf_store : UpdateRemoveQuad(quad)
    \/ UpdateDeleteVectors
    \/ UpdateAddTriple
    \/ UpdateAddVectors
    \/ \E u \in URIs : GetObject(u)

SpecInterleave == Init /\ [][NextInterleave]_vars

\* _graph_object_to_vector_data for one vector id of T1, on the JSON of an
\* object: one derivation in a behaviour
DeriveProjection(values, vector_id) ==
    /\ lastCall.op = "none"
    /\ lastCall' = [NoCall EXCEPT
                      !.op = "graph_object_to_vector_data", !.vector_id = vector_id,
                      !.values = values,
                      !.text = projection_text(values, vector_mappings[T1][vector_id]),
                      !.payload = projection_payload(values)]
    /\ UNCHANGED <<writers, rdf_store, vector_store, object_registry, before, missing_delete, nops,
                   memory, writer>>

NextProjection ==
    \E values \in JsonObjects, v \in Range(VectorIdOrder) : DeriveProjection(values, v)

SpecProjection == Init /\ [][NextProjection]_vars

\* properties written with a datatype hint, each under a predicate of its own
WriteProperty(prop_uri, text, datatype) ==
    /\ nops < MaxWrites
    /\ rdf_store' = add_property_triple_hint(rdf_store, "urn:a", prop_uri,
                                             [value |-> text, datatype |-> datatype], graph_uri)
    /\ lastCall' = [NoCall EXCEPT !.op = "add_property_triple", !.uri = "urn:a",
                                  !.value = PyValue("text", text), !.hint = datatype,
                                  !.literal = create_typed_literal_hint(text, datatype)]
    /\ before' = State
    /\ nops' = nops + 1
    /\ UNCHANGED <<writers, vector_store, object_registry, missing_delete, memory, writer>>

NextDatatype ==
    \E p \in {hasName, hasDescription}, text \in HintValues, datatype \in Hints :
        WriteProperty(p, text, datatype)

SpecDatatype == Init /\ [][NextDatatype]_vars

\* the bridge-level delete, on a graph a few add_object calls have filled
DeleteAddObject(o) == nops < MaxReadOps /\ AddObject(o)

\* KGraphInteractionBridge.delete_interaction(uri)
DeleteInteraction(uri, hashable) ==
    /\ LET R == delete_object_and_edges(State, uri, hashable)
       IN  /\ rdf_store' = R.rdf
           /\ vector_store' = R.points
           /\ object_registry' = R.registry
           /\ lastCall' = [NoCall EXCEPT !.op = "delete_interaction", !.uri = uri,
                                         !.hashable = hashable, !.ret = R.ret]
    /\ before' = State
    /\ UNCHANGED <<writers, missing_delete, nops, memory, writer>>

NextDelete ==
    \/ \E o \in GraphObjects : DeleteAddObject(o)
    \/ \E u \in URIs, hashable \in Hashable : DeleteInteraction(u, hashable)

SpecDelete == Init /\ [][NextDelete]_vars

\* the calls made on a KGraphMemory and on the graphs of its bridges
MemoryObjects == {o \in FaultObjects : o.name = "x"}

MemoryCall(op, graph_id) ==
    [NoCall EXCEPT !.op = op, !.graph_id = graph_id, !.memory_before = memory]

CreateKGraphBridge(graph_id) ==
    /\ nops < MaxMemoryOps
    /\ LET R == create_kgraph_bridge(memory, graph_id)
       IN  /\ memory' = [bridges |-> R.bridges, kgraphs |-> R.kgraphs]
           /\ lastCall' = [MemoryCall("create_kgraph_bridge", graph_id) EXCEPT
                              !.raised = R.raised]
    /\ nops' = nops + 1
    /\ UNCHANGED <<writers, rdf_store, vector_store, object_registry, before, missing_delete, writer>>

RemoveKGraphBridge(graph_id) ==
    /\ nops < MaxMemoryOps
    /\ LET R == remove_kgraph_bridge(memory, graph_id)
       IN  /\ memory' = [bridges |-> R.bridges, kgraphs |-> R.kgraphs]
           /\ lastCall' = [MemoryCall("remove_kgraph_bridge", graph_id) EXCEPT !.ret = R.ret]
    /\ nops' = nops + 1
    /\ UNCHANGED <<writers, rdf_store, vector_store, object_registry, before, missing_delete, writer>>

\* a call on the KGraph of the bridge registered under graph_id; R is what
\* the call makes of its stores
GraphCall(graph_id, R, call) ==
    /\ nops < MaxMemoryOps
    /\ graph_id \in DOMAIN memory.bridges
    /\ memory' = on_graph(memory, graph_id, Stores(R))
    /\ lastCall' = [call EXCEPT !.ret = R.ret]
    /\ nops' = nops + 1
    /\ UNCHANGED <<writers, rdf_store, vector_store, object_registry, before, missing_delete, writer>>

GraphAddObject(graph_id, o) ==
    /\ graph_id \in DOMAIN memory.bridges
    /\ GraphCall(graph_id, add_object(memory.bridges[graph_id], o),
                 [MemoryCall("add_object", graph_id) EXCEPT !.obj = o, !.uri = o.URI])

GraphUpdateObject(graph_id, o) ==
    /\ graph_id \in DOMAIN memory.bridges
    /\ GraphCall(graph_id, update_object(memory.bridges[graph_id], o, missing_delete),
                 [MemoryCall("update_object", graph_id) EXCEPT !.obj = o, !.uri = o.URI])

GraphRemoveObject(graph_id, uri) ==
    /\ graph_id \in DOMAIN memory.bridges
    /\ GraphCall(graph_id, remove_object(memory.bridges[graph_id], uri, missing_delete),
                 [MemoryCall("remove_object", graph_id) EXCEPT !.uri = uri])

GraphClear(graph_id) ==
    /\ graph_id \in DOMAIN memory.bridges
    /\ LET S == clear(memory.bridges[graph_id])
       IN  GraphCall(graph_id,
                     [rdf |-> S.rdf, points |-> S.points, registry |-> S.registry, ret |-> TRUE],
                     MemoryCall("clear", graph_id))

NextMemory ==
    \/ \E g \in GraphIds : CreateKGraphBridge(g)
    \/ \E g \in GraphIds : RemoveKGraphBridge(g)
    \/ \E g \in GraphIds, o \in MemoryObjects : GraphAddObject(g, o)
    \/ \E g \in GraphIds, o \in MemoryObjects : GraphUpdateObject(g, o)
    \/ \E g \in GraphIds, u \in URIs : GraphRemoveObject(g, u)
    \/ \E g \in GraphIds : GraphClear(g)

SpecMemory == Init /\ [][NextMemory]_vars

-----------------------------------------------------------------------------
(* Properties *)

\* every vector id any type declares
AllVectorIds == Range(VectorIdOrder)

\* the vector ids declared for a type, as a set
VectorIdsOf(type_uri) == Range(get_available_vector_ids_for_type(type_uri))

\* the vector ids of a type whose projection text for o is non-empty
NonEmptyVectorIds(o) ==
    {v \in VectorIdsOf(o.type) : vector_text(o, get_vector_mappings_for_type(o.type)[v]) # ""}

SubjectQuads(store, uri) == {q \in store : q[1] = NamedNode(uri)}
ObjectQuads(store, uri) == {q \in store : q[3] = NamedNode(uri)}

\* C1: after remove_object(uri) returns, for an object that was added (its
\* type is in the registry when the call starts), the vector store holds no
\* record at the deterministic id uuid5(uri#p) of any projection p of its type.
C1_DeleteCompleteVector ==
    (lastCall.op = "remove_object" /\ lastCall.uri \in DOMAIN before.registry)
        => \A p \in VectorIdsOf(before.registry[lastCall.uri]) :
              add_record_id(lastCall.uri, p) \notin DOMAIN vector_store

\* C2: when update_object(o) is called for an object whose projection p held a
\* record (it was added with a non-empty text for p) and the text of p for o
\* is empty, no record exists at uuid5(uri#p) after the update.
C2_UpdateClearsStale ==
    lastCall.op = "update_object"
        => \A p \in VectorIdsOf(lastCall.obj.type) :
              (/\ add_record_id(lastCall.uri, p) \in DOMAIN before.points
               /\ p \notin NonEmptyVectorIds(lastCall.obj))
                  => add_record_id(lastCall.uri, p) \notin DOMAIN vector_store

\* C3: after every add_object of a URI the graph does not hold yet, every
\* update_object and every remove_object, a record exists at uuid5(uri#p) iff
\* the object of the call is stored (it has triples as subject) and the text
\* of p for its current version is non-empty; the records of the other URIs
\* are the ones that existed before the call.
C3_DualStoreConsistent ==
    (\/ lastCall.op \in {"update_object", "remove_object"}
     \/ lastCall.op = "add_object" /\ SubjectQuads(before.rdf, lastCall.uri) = {}
                                   /\ lastCall.uri \notin DOMAIN before.registry)
        => \A u \in URIs, p \in AllVectorIds :
              (add_record_id(u, p) \in DOMAIN vector_store)
                <=> IF u # lastCall.uri THEN add_record_id(u, p) \in DOMAIN before.points
                    ELSE /\ lastCall.op # "remove_object"
                         /\ SubjectQuads(rdf_store, u) # {}
                         /\ p \in NonEmptyVectorIds(lastCall.obj)

\* C4: after remove_object(uri) returns, the graph holds no quad with uri as
\* subject and none with uri as object, and get_object(uri) is None.
C4_DeleteCompleteTriples ==
    lastCall.op = "remove_object"
        => /\ SubjectQuads(rdf_store, lastCall.uri) = {}
           /\ ObjectQuads(rdf_store, lastCall.uri) = {}
           /\ get_graph_object(rdf_store, lastCall.uri, graph_uri) = NoObject

\* C4 witness: a remove_object of a URI that had its own triples and an
\* inbound edge from another object, whose triples remain.
C4_Witness ==
    /\ lastCall.op = "remove_object"
    /\ SubjectQuads(before.rdf, lastCall.uri) # {}
    /\ \E q \in ObjectQuads(before.rdf, lastCall.uri) : q[1] # NamedNode(lastCall.uri)
    /\ rdf_store # {}

\* C5: an add_object(o) that repeats the add_object(o) made just before it
\* leaves the quads, the vector records (ids and payloads), the vector count
\* and the registry as the first one left them.
C5_IdempotentAdd ==
    (lastCall.op = "add_object" /\ lastCall.repeat)
        => /\ rdf_store = before.rdf
           /\ vector_store = before.points
           /\ count(vector_store) = count(before.points)
           /\ object_registry = before.registry

\* C5 witness: a repeated add_object of an object that has vector records,
\* on stores that also hold another object.
C5_Witness ==
    /\ lastCall.op = "add_object" /\ lastCall.repeat /\ lastCall.ret
    /\ NonEmptyVectorIds(lastCall.obj) # {}
    /\ \E u \in DOMAIN object_registry : u # lastCall.uri

\* C6: after add_object(o) succeeds, the keys of get_object_vectors(o.URI) are
\* exactly the vector ids of o's type whose text for o is non-empty, and every
\* returned record has payload uri = o.URI.
C6_ObjectVectorsAfterAdd ==
    (lastCall.op = "add_object" /\ lastCall.ret)
        => LET vectors == get_object_vectors(State, lastCall.uri)
           IN  /\ DOMAIN vectors = NonEmptyVectorIds(lastCall.obj)
               /\ \A v \in DOMAIN vectors : vectors[v].payload.uri = lastCall.uri

\* C7: add_object of an object the graph does not hold (no triples of its URI)
\* returns True, writes its triples and raises the vector count by exactly
\* the number of its non-empty projections.
C7_EmptyProjectionSuppression ==
    (lastCall.op = "add_object" /\ get_graph_object(before.rdf, lastCall.uri, graph_uri) = NoObject)
        => /\ lastCall.ret
           /\ add_graph_object_triples({}, lastCall.obj, graph_uri) \subseteq rdf_store
           /\ count(vector_store)
                = count(before.points) + Cardinality(NonEmptyVectorIds(lastCall.obj))

\* C8: every record in the vector store sits at uuid5 of its key string
\* uri#vector_id, and that is the id update_object, remove_object and
\* get_object_vectors address for (uri, vector_id).
C8_DeterministicVectorId ==
    \A id \in DOMAIN vector_store :
        LET payload == vector_store[id].payload
        IN  /\ id = uuid5(combined_string(payload.uri, payload.vector_id))
            /\ id = lookup_record_id(payload.uri, payload.vector_id)

\* C9: hybrid_search(text, fragment, filters, limit) returns at most limit
\* results, with and without a structural fragment.
C9_HybridAtMostLimit ==
    lastCall.op = "hybrid_search" => Len(lastCall.results) <= lastCall.limit

\* C9 witness: a search over more matching records than limit that returns
\* exactly limit of them.
C9_Witness ==
    /\ lastCall.op = "hybrid_search"
    /\ Cardinality({i \in DOMAIN vector_store :
                        matches(vector_store[i].payload, lastCall.filters)}) > lastCall.limit
    /\ Len(lastCall.results) = lastCall.limit

C13_UpdateReplacesQuads ==
    (/\ lastCall.op = "update_object" /\ lastCall.ret
     /\ lastCall.uri \in DOMAIN before.registry
     /\ SubjectQuads(before.rdf, lastCall.uri) # {})
        => SubjectQuads(rdf_store, lastCall.uri)
              = add_graph_object_triples({}, lastCall.obj, graph_uri)

\* C13 witness: a successful update_object of an object with projections
\* whose old version had a quad the new version does not have.
C13_Witness ==
    /\ lastCall.op = "update_object" /\ lastCall.ret
    /\ lastCall.uri \in DOMAIN before.registry
    /\ lastCall.obj.type = T1
    /\ \E q \in SubjectQuads(before.rdf, lastCall.uri) :
          q \notin add_graph_object_triples({}, lastCall.obj, graph_uri)

\* C16: sparql_query of a malformed query returns the empty list, and
\* hybrid_search with a malformed fragment returns a list (of at most limit
\* results); neither changes the triple store, the vector store or the
\* registry.
C16_MalformedSparqlTolerated ==
    /\ (lastCall.op = "sparql_query" /\ lastCall.query.kind = "malformed")
          => lastCall.results = <<>> /\ State = before
    /\ (lastCall.op = "hybrid_search" /\ lastCall.fragment.kind = "malformed")
          => /\ DOMAIN lastCall.results = 1..Len(lastCall.results)
             /\ Len(lastCall.results) <= lastCall.limit
             /\ State = before

\* C16 witness: a malformed call made on stores that hold objects: a
\* hybrid_search whose vector candidates exist, or a sparql_query on a graph
\* that has subjects.
C16_Witness ==
    \/ /\ lastCall.op = "hybrid_search" /\ lastCall.fragment.kind = "malformed"
       /\ \E i \in DOMAIN vector_store : matches(vector_store[i].payload, lastCall.filters)
       /\ rdf_store # {}
    \/ /\ lastCall.op = "sparql_query" /\ lastCall.query.kind = "malformed"
       /\ Solutions(rdf_store, graph_uri) # {}
       /\ vector_store # <<>>

\* C19: after add_object(o) returns True the registry maps o.URI to the type
\* of o; after remove_object(uri) the registry has no entry for uri; and
\* get_object_vectors of a URI without registry entry is the empty map.
C19_RegistryLifecycle ==
    /\ (lastCall.op = "add_object" /\ lastCall.ret)
          => /\ lastCall.uri \in DOMAIN object_registry
             /\ object_registry[lastCall.uri] = lastCall.obj.type
    /\ lastCall.op = "remove_object" => lastCall.uri \notin DOMAIN object_registry
    /\ \A u \in URIs :
          u \notin DOMAIN object_registry => get_object_vectors(State, u) = <<>>

\* C29: remove_object(uri) for a URI that has no registry entry removes the
\* quads with uri as subject and the quads with uri as object and no other,
\* leaves the vector store and the registry as they were, and returns True.
C29_RemoveUnregistered ==
    (lastCall.op = "remove_object" /\ lastCall.uri \notin DOMAIN before.registry)
        => /\ lastCall.ret = TRUE
           /\ rdf_store = before.rdf \ (SubjectQuads(before.rdf, lastCall.uri)
                                        \cup ObjectQuads(before.rdf, lastCall.uri))
           /\ vector_store = before.points
           /\ object_registry = before.registry

\* C29 witness: a remove_object of a URI without registry entry that takes
\* quads away (an inbound edge, the URI was never added) or that finds vector
\* records naming the URI (it was removed before) and leaves them.
C29_Witness ==
    /\ lastCall.op = "remove_object" /\ lastCall.uri \notin DOMAIN before.registry
    /\ \/ rdf_store # before.rdf /\ vector_store # <<>>
       \/ \E i \in DOMAIN vector_store : vector_store[i].payload.uri = lastCall.uri

\* C20: vector_search_by_type(text, vector_id, limit, filters) returns at
\* most limit results, each with payload vector_id equal to the vector_id
\* asked for, whatever filters the caller adds.
C20_SearchByProjectionOnly ==
    lastCall.op = "vector_search_by_type"
        => /\ Len(lastCall.results) <= lastCall.limit
           /\ \A i \in DOMAIN lastCall.results :
                 lastCall.results[i].metadata.vector_id = lastCall.vector_id

\* C20 witness: a search for one vector id with a filter of the caller, on a
\* store that holds more records of that vector id than limit and a record
\* of the other vector id, all matching the caller's filter; it returns
\* limit results.
C20_Witness ==
    /\ lastCall.op = "vector_search_by_type"
    /\ lastCall.filters = [type |-> T1]
    /\ Cardinality({i \in DOMAIN vector_store :
                        vector_store[i].payload.vector_id = lastCall.vector_id})
          > lastCall.limit
    /\ \E i \in DOMAIN vector_store : vector_store[i].payload.vector_id # lastCall.vector_id
    /\ Len(lastCall.results) = lastCall.limit

\* C30: in every state reached by add_object, update_object and
\* remove_object calls, every vector record whose payload uri is registered
\* has the payload type the registry holds for that URI: no record of a type
\* the object no longer has is left.
C30_TypeAgreement ==
    \A id \in DOMAIN vector_store :
        LET payload == vector_store[id].payload
        IN  payload.uri \in DOMAIN object_registry
               => payload.type = object_registry[payload.uri]

-----------------------------------------------------------------------------
(* Properties of add_object and add_objects when a sub-step raises *)

\* the fault raises during add_object(o): the triple store and the derivation
\* are always reached, add_text only for a projection with a non-empty text
FaultFires(o, fault) ==
    \/ fault \in {"triple", "derive"}
    \/ \E v \in NonEmptyVectorIds(o) : fault = "vector:" \o v

\* the vector store holds the record of projection v of o
HasRecordOf(points, o, v) ==
    /\ add_record_id(o.URI, v) \in DOMAIN points
    /\ points[add_record_id(o.URI, v)].payload.original_text
          = vector_text(o, get_vector_mappings_for_type(o.type)[v])

\* C11: when add_text raises for one non-empty projection p of o during
\* add_object(o), the triples of o are written and the record of every other
\* non-empty projection of o is written too.
C11_PartialFailureIndependence ==
    (lastCall.op = "add_object" /\ \E p \in NonEmptyVectorIds(lastCall.obj) :
                                      lastCall.fault = "vector:" \o p)
        => /\ add_graph_object_triples({}, lastCall.obj, graph_uri) \subseteq rdf_store
           /\ \A v \in NonEmptyVectorIds(lastCall.obj) :
                 lastCall.fault # "vector:" \o v => HasRecordOf(vector_store, lastCall.obj, v)

\* C12: when the triple store, the projection derivation or the vector store
\* raises during add_object(o), add_object returns False, and what was
\* written before the failure stays: the triples of o when a later sub-step
\* raised, and the records of the projections before the one that raised.
C12_AddObjectFailureIsFalse ==
    (lastCall.op = "add_object" /\ FaultFires(lastCall.obj, lastCall.fault))
        => /\ lastCall.ret = FALSE
           /\ before.rdf \subseteq rdf_store
           /\ \A id \in DOMAIN before.points : id \in DOMAIN vector_store
           /\ lastCall.fault # "triple"
                 => add_graph_object_triples({}, lastCall.obj, graph_uri) \subseteq rdf_store
           /\ lastCall.fault = "vector:description"
                 => \A v \in NonEmptyVectorIds(lastCall.obj) \ {"description"} :
                       HasRecordOf(vector_store, lastCall.obj, v)

\* C24: whenever add_object(o) returns True, the graph holds the quad
\* (o.URI, rdf:type, class of o) and one quad for each property of o that is
\* not None; True is not returned when the type quad was not written.
C24_SuccessMeansTypeQuad ==
    (lastCall.op = "add_object" /\ lastCall.ret)
        => /\ Quad(NamedNode(lastCall.uri), NamedNode(RDF_TYPE), NamedNode(lastCall.obj.type),
                   NamedNode(graph_uri)) \in rdf_store
           /\ \A p \in DOMAIN Properties(lastCall.obj) :
                 Properties(lastCall.obj)[p] # None
                    => \E q \in SubjectQuads(rdf_store, lastCall.uri) :
                          q[2] = NamedNode(p) /\ q[3].value = Properties(lastCall.obj)[p]

RECURSIVE StateAfter(_, _, _, _)
\* the stores after add_object was called on the first k elements of a list,
\* one call after the other
StateAfter(S, graph_objects, faults, k) ==
    IF k = 0 THEN S
    ELSE LET S0 == StateAfter(S, graph_objects, faults, k - 1)
             R == add_object_under(S0, graph_objects[k], faults[k])
         IN  [rdf |-> R.rdf, points |-> R.points, registry |-> R.registry]

\* the return value of the k-th add_object call of a list
ReturnOf(S, graph_objects, faults, k) ==
    add_object_under(StateAfter(S, graph_objects, faults, k - 1),
                     graph_objects[k], faults[k]).ret

\* C14: add_objects(list) returns the number of elements whose add_object
\* call, made in list order, returned True; the stores it leaves are those of
\* the add_object calls made one after the other on every element, so the
\* objects added before a failing element stay registered with their triples
\* and the elements after it are registered as well.
C14_AddObjectsCountsSuccesses ==
    lastCall.op = "add_objects"
        => LET objs == lastCall.objs
               faults == lastCall.faults
               ok == {k \in DOMAIN objs : ReturnOf(before, objs, faults, k)}
           IN  /\ lastCall.count = Cardinality(ok)
               /\ State = StateAfter(before, objs, faults, Len(objs))
               /\ \A k \in ok : objs[k].URI \in DOMAIN object_registry
               /\ \A k \in DOMAIN objs :
                     faults[k] # "triple"
                        => add_graph_object_triples({}, objs[k], graph_uri) \subseteq rdf_store

\* C14 witness: a batch of three whose second add_object fails while the
\* first and the third, on different URIs, succeed: the count is two.
C14_Witness ==
    /\ lastCall.op = "add_objects"
    /\ Len(lastCall.objs) = 3
    /\ lastCall.objs[1].URI # lastCall.objs[3].URI
    /\ ReturnOf(before, lastCall.objs, lastCall.faults, 1)
    /\ ~ReturnOf(before, lastCall.objs, lastCall.faults, 2)
    /\ ReturnOf(before, lastCall.objs, lastCall.faults, 3)
    /\ lastCall.count = 2
    /\ lastCall.objs[3].URI \in DOMAIN object_registry

-----------------------------------------------------------------------------
(* Properties of the triple store calls *)

\* C15: add_triple of a quad the store does not hold inserts it and returns
\* True; add_triple of a quad the store holds leaves the store as it was
\* (same quads, same count) and returns False.
C15_AddQuadReportsNovelty ==
    lastCall.op = "add_triple"
        => IF lastCall.quad \notin before.rdf
           THEN /\ rdf_store = before.rdf \cup {lastCall.quad}
                /\ lastCall.ret = TRUE
           ELSE /\ rdf_store = before.rdf
                /\ Cardinality(rdf_store) = Cardinality(before.rdf)
                /\ lastCall.ret = FALSE

-----------------------------------------------------------------------------
(* Properties of the reads *)

\* C17: the keys of get_objects_batch(uris) are exactly the URIs of the list
\* for which get_object is not None, the value of each key is what get_object
\* returns for it, and a URI that does not resolve takes no other entry away.
C17_BatchReadAgreesWithSingle ==
    lastCall.op = "get_objects_batch"
        => /\ DOMAIN lastCall.objects
                = {u \in Range(lastCall.uris) :
                      get_graph_object(rdf_store, u, graph_uri) # NoObject}
           /\ \A u \in DOMAIN lastCall.objects :
                 lastCall.objects[u] = get_graph_object(rdf_store, u, graph_uri)

\* C17 witness: a batch read of one URI that resolves and one that does not
\* (no triples, or triples without a type) which returns the one object.
C17_Witness ==
    /\ lastCall.op = "get_objects_batch"
    /\ \E u, w \in Range(lastCall.uris) :
          /\ get_graph_object(rdf_store, u, graph_uri) # NoObject
          /\ get_graph_object(rdf_store, w, graph_uri) = NoObject
          /\ u \in DOMAIN lastCall.objects
    /\ Cardinality(DOMAIN lastCall.objects) = 1

\* C18: the object get_object returns after add_object(o) has the URI of o
\* and, for its property, the value that was written, with its type (str,
\* int, float or bool): equal as a value, not only as a string.
C18_WriteReadRoundTrip ==
    lastCall.op = "get_object"
        => /\ lastCall.readback.URI = {lastCall.uri}
           /\ lastCall.readback.values = {lastCall.value}

-----------------------------------------------------------------------------
(* Properties of reads during an update *)

\* the triple store an update_object(o) that started on store leaves
UpdatedStore(store, o) ==
    add_graph_object_triples(remove_triple(store, o.URI, None, None, graph_uri), o, graph_uri)

\* C27: a get_object(uri) that runs while update_object on the same uri is
\* between its store calls sees the store of that moment. After remove_triple
\* and before the first add_triple it returns None although the object
\* existed before the update and exists after it; after some but not all of
\* the add_triple calls it returns an object that is not the updated one.
C27_ReadSeesIntermediateState ==
    (/\ lastCall.op = "get_object"
     /\ lastCall.at.pc \in {"delete", "add_triple"}
     /\ lastCall.uri = lastCall.at.obj.URI
     /\ get_graph_object(lastCall.at.rdf_before, lastCall.uri, graph_uri) # NoObject)
        => LET pre == get_graph_object(lastCall.at.rdf_before, lastCall.uri, graph_uri)
               post == get_graph_object(UpdatedStore(lastCall.at.rdf_before, lastCall.at.obj),
                                        lastCall.uri, graph_uri)
           IN  /\ lastCall.at.k = 0
                    => /\ lastCall.object = NoObject
                       /\ lastCall.object # pre
                       /\ lastCall.object # post
               /\ lastCall.at.k < Len(add_triple_calls(lastCall.at.obj))
                    => lastCall.object # post

\* C27 witness: a get_object made between the remove_triple and the first
\* add_triple of an update_object on the same URI, for an object that was
\* stored; it returned None.
C27_Witness ==
    /\ lastCall.op = "get_object"
    /\ lastCall.at.pc = "add_triple" /\ lastCall.at.k = 0
    /\ lastCall.uri = lastCall.at.obj.URI
    /\ get_graph_object(lastCall.at.rdf_before, lastCall.uri, graph_uri) # NoObject
    /\ lastCall.object = NoObject

-----------------------------------------------------------------------------
(* Properties of the projection text *)

\* the text without the blanks before its first and after its last letter
Trimmed(text) ==
    LET letters == {i \in DOMAIN text : text[i] # " "}
    IN  IF letters = {} THEN <<>>
        ELSE SubSeq(text, CHOOSE i \in letters : \A j \in letters : i <= j,
                          CHOOSE i \in letters : \A j \in letters : i >= j)

\* the declared properties whose value is a str with a letter in it
Contributing(values, vector_property_uris) ==
    SelectSeq(vector_property_uris,
              LAMBDA p : /\ p \in DOMAIN values /\ values[p].type = "str"
                         /\ \E i \in DOMAIN values[p].text : values[p].text[i] # " ")

\* the values with the entries that are no str taken out
OnlyStrings(values) == [p \in {q \in DOMAIN values : values[q].type = "str"} |-> values[p]]

\* C26: the text of a projection is the trimmed values of its declared
\* properties that are non-blank strings, in declared order, with one blank
\* between two of them; a list, a number or null adds nothing to the text
\* (the text is that of the object without them) while a list or a number is
\* in the payload; the same values give the same text.
C26_ProjectionText ==
    lastCall.op = "graph_object_to_vector_data"
        => LET values == lastCall.values
               uris == vector_mappings[T1][lastCall.vector_id]
               kept == Contributing(values, uris)
               text == lastCall.text
           IN  /\ Len(kept) = 0 => text = <<>>
               /\ Len(kept) = 1 => text = Trimmed(values[kept[1]].text)
               /\ Len(kept) = 2 => text = Trimmed(values[kept[1]].text) \o <<" ">>
                                             \o Trimmed(values[kept[2]].text)
               /\ Len(kept) <= 2
               /\ text = projection_text(OnlyStrings(values), uris)
               /\ text = projection_text(values, uris)
               /\ \A p \in DOMAIN values :
                     values[p].type \in {"list", "int"}
                        => p \in DOMAIN lastCall.payload /\ lastCall.payload[p] = values[p]

\* C26 witness: the projection of two declared properties, both set to a
\* letter with a blank before or after it; the text is the two letters with
\* one blank between them.
C26_Witness ==
    /\ lastCall.op = "graph_object_to_vector_data"
    /\ lastCall.vector_id = "general"
    /\ lastCall.values = [p \in {hasName, hasDescription} |->
                            IF p = hasName THEN PyValue("str", <<" ", "x">>)
                            ELSE PyValue("str", <<"x", " ">>)]
    /\ lastCall.text = <<"x", " ", "x">>

-----------------------------------------------------------------------------
(* Properties of the datatype mapping *)

\* C25: the literal written for a property has the datatype of the mapping:
\* a hint that is an XSD URI is used as it is; otherwise a hint whose name
\* contains DateTime gives xsd:dateTime, Date xsd:date, Long or Integer
\* xsd:long, Double or Float xsd:double, Boolean xsd:boolean with the value
\* lower-cased, anything else xsd:string, tried in that order; and that
\* literal is the object of the quad written.
C25_DatatypeMapping ==
    lastCall.op = "add_property_triple"
        => LET expected == IF lastCall.hint.kind \in {"rdflib", "str"}
                           THEN Literal(lastCall.value.text, lastCall.hint.uri)
                           ELSE get_typed_literal(lastCall.hint.name, lastCall.value.text)
           IN  /\ lastCall.literal = expected
               /\ \E q \in SubjectQuads(rdf_store, lastCall.uri) : q[3] = expected

-----------------------------------------------------------------------------
(* Properties of the hybrid selection *)

\* C23: hybrid_search with a well-formed structural fragment returns, in
\* score order, the first limit of the limit*2 best vector candidates whose
\* object URI (payload uri) satisfies the ASK, and all of them when fewer
\* than limit do.
C23_HybridSelection ==
    (lastCall.op = "hybrid_search" /\ lastCall.fragment.kind \in {"po", "exists"})
        => LET candidates == search_by_text(vector_store, lastCall.order,
                                            lastCall.limit * 2, lastCall.filters)
               matching == SelectSeq(candidates,
                              LAMBDA r : sparql_ask(rdf_store, graph_uri, r.metadata.uri,
                                                    lastCall.fragment))
               expected == Take(matching, lastCall.limit)
           IN  /\ Len(lastCall.results) = Len(expected)
               /\ \A k \in DOMAIN expected :
                     /\ lastCall.results[k].id = expected[k].id
                     /\ lastCall.results[k].metadata = expected[k].metadata

-----------------------------------------------------------------------------
(* Properties of the bridge-level delete *)

\* C22: after delete_interaction(uri) (delete_object_and_edges) returns True
\* for a URI that was added before, the graph holds no quad with uri as
\* subject and get_object(uri) is None.
C22_BridgeDeleteRemovesObject ==
    (lastCall.op = "delete_interaction" /\ lastCall.ret
     /\ lastCall.uri \in DOMAIN before.registry)
        => /\ SubjectQuads(rdf_store, lastCall.uri) = {}
           /\ get_graph_object(rdf_store, lastCall.uri, graph_uri) = NoObject

-----------------------------------------------------------------------------
(* Properties of the memory manager *)

\* C21: create_kgraph_bridge(graph_id) raises ValueError when graph_id is
\* registered and then leaves the registered bridges and graphs as they were;
\* otherwise it raises nothing and registers exactly one new bridge, under
\* graph_id, next to the bridges registered before.
C21_CreateBridgeRejectsDuplicate ==
    lastCall.op = "create_kgraph_bridge"
        => IF lastCall.graph_id \in DOMAIN lastCall.memory_before.bridges
           THEN /\ lastCall.raised = "ValueError"
                /\ memory = lastCall.memory_before
           ELSE /\ lastCall.raised = None
                /\ DOMAIN memory.bridges
                      = DOMAIN lastCall.memory_before.bridges \cup {lastCall.graph_id}
                /\ DOMAIN memory.kgraphs
                      = DOMAIN lastCall.memory_before.kgraphs \cup {lastCall.graph_id}
                /\ \A g \in DOMAIN lastCall.memory_before.bridges :
                      memory.bridges[g] = lastCall.memory_before.bridges[g]

\* C21 witness: create_kgraph_bridge for a graph_id whose registered bridge
\* holds an object; it raises.
C21_Witness ==
    /\ lastCall.op = "create_kgraph_bridge"
    /\ lastCall.graph_id \in DOMAIN lastCall.memory_before.bridges
    /\ lastCall.memory_before.bridges[lastCall.graph_id].registry # <<>>
    /\ lastCall.raised = "ValueError"

\* the calls C28 is about
GraphOps == {"add_object", "update_object", "remove_object", "clear"}

\* C28: add_object, update_object, remove_object and clear on the KGraph of
\* one bridge leave the triple store, the vector store and the registry of
\* the KGraph of every other bridge, and of every KGraph the memory keeps in
\* _kgraphs, as they were; no bridge or graph is registered or dropped.
C28_GraphIndependence ==
    lastCall.op \in GraphOps /\ lastCall.graph_id # None
        => /\ DOMAIN memory.bridges = DOMAIN lastCall.memory_before.bridges
           /\ \A g \in DOMAIN memory.bridges \ {lastCall.graph_id} :
                 memory.bridges[g] = lastCall.memory_before.bridges[g]
           /\ memory.kgraphs = lastCall.memory_before.kgraphs

\* C28 witness: a remove_object on one graph that changes its stores, for a
\* URI another graph of the same memory (same projection config, same graph
\* URI) has registered too and keeps.
C28_Witness ==
    /\ lastCall.op = "remove_object" /\ lastCall.graph_id # None
    /\ memory.bridges[lastCall.graph_id]
          # lastCall.memory_before.bridges[lastCall.graph_id]
    /\ \E g \in DOMAIN memory.bridges \ {lastCall.graph_id} :
          /\ lastCall.uri \in DOMAIN memory.bridges[g].registry
          /\ SubjectQuads(memory.bridges[g].rdf, lastCall.uri) # {}
          /\ memory.bridges[g].points # <<>>


-----------------------------------------------------------------------------
(* Record keys under custom mappings: kgraph.py, default_vector_mappings.py *)

\* mappings handed to KGraph.__init__ in place of the defaults: the vector
\* ids are the keys of a dict, any str; here one of them holds a "#"
key_mappings ==
    [t \in {T1} |-> [v \in {"y", "x#y"} |->
        IF v = "y" THEN <<hasName, hasDescription>> ELSE <<hasDescription>>]]

KeyIdOrder == <<"y", "x#y">>

\* objects whose URIs differ by a fragment
KeyObjects ==
    [URI : {"urn:a", "urn:a#x"}, type : {T1}, name : {"", "x"}, desc : {None, "z"}, ref : {None}]

\* _graph_object_to_vector_data under key_mappings
graph_object_to_vector_data_keyed(o) ==
    [i \in DOMAIN KeyIdOrder |->
        [vector_id |-> KeyIdOrder[i],
         vector_text |-> vector_text(o, key_mappings[o.type][KeyIdOrder[i]]),
         metadata |-> [uri |-> o.URI, type |-> o.type, graph_uri |-> graph_uri,
                       props |-> property_values(o),
                       vector_id |-> KeyIdOrder[i],
                       vector_property_uris |-> key_mappings[o.type][KeyIdOrder[i]],
                       original_record_id |-> None,
                       original_text |-> None]]]

\* add_object of a KGraph constructed with key_mappings
add_object_keyed(S, o) ==
    [rdf |-> add_graph_object_triples(S.rdf, o, graph_uri),
     points |-> add_vectors(S.points, o.URI, graph_object_to_vector_data_keyed(o)),
     registry |-> put(S.registry, o.URI, o.type),
     ret |-> TRUE]

AddObjectKeyed(o) ==
    /\ nops < MaxOps
    /\ Commit(add_object_keyed(State, o),
              [NoCall EXCEPT !.op = "add_object", !.obj = o, !.uri = o.URI])

NextKeys == \E o \in KeyObjects : AddObjectKeyed(o)

SpecKeys == Init /\ [][NextKeys]_vars

\* C31: writing the projections of one object never overwrites the vector
\* record of another (object URI, vector id) pair: every record that was
\* stored for another URI before add_object(o) is the same after it
C31_VectorIdInjective ==
    lastCall.op = "add_object" =>
        \A i \in DOMAIN before.points :
            before.points[i].payload.uri # lastCall.uri =>
                i \in DOMAIN vector_store /\ vector_store[i] = before.points[i]


-----------------------------------------------------------------------------
(* Two threads in update_object on one KGraph: kgraph.py *)

\* the versions of "urn:a" the two calls write: same type, other values
WriterObjects == {o \in ReadObjects : o.URI = "urn:a"}

\* the other thread
other(t) == 3 - t

InProgress(t) == writers[t].pc \notin {"idle", "done"}

Started == lastCall.op = "update_object"

\* the graph is filled before the two calls are made
WritersAddObject(o) ==
    /\ ~Started
    /\ nops < MaxSetupOps
    /\ AddObject(o)

\* thread t enters update_object(o): remove_triple lists the quads of the
\* subject. Thread 1 is the thread that enters first; the call record keeps
\* the objects in the order of entry and whether the calls overlapped
WriterMatch(t, o) ==
    /\ writers[t].pc = "idle"
    /\ t = 2 => writers[1].pc # "idle" /\ writers[1].obj # o
    /\ LET matching == get_triples(rdf_store, o.URI, graph_uri)
       IN  writers' = [writers EXCEPT ![t] =
                          [pc |-> IF matching = {} THEN "delete" ELSE "remove",
                           obj |-> o, k |-> 0, matching |-> matching, rdf_before |-> {}]]
    /\ lastCall' = IF Started
                   THEN [lastCall EXCEPT !.objs = Append(lastCall.objs, o),
                                         !.serial = ~InProgress(other(t))]
                   ELSE [NoCall EXCEPT !.op = "update_object", !.uri = o.URI, !.objs = <<o>>]
    /\ before' = IF Started THEN before ELSE State
    /\ UNCHANGED <<rdf_store, vector_store, object_registry, missing_delete, nops, memory, writer>>

\* remove_triple of thread t removes one of the quads it listed
WriterRemoveQuad(t, quad) ==
    /\ writers[t].pc = "remove"
    /\ quad \in writers[t].matching
    /\ rdf_store' = remove_quad(rdf_store, quad)
    /\ writers' = [writers EXCEPT
                     ![t].matching = writers[t].matching \ {quad},
                     ![t].pc = IF writers[t].matching = {quad} THEN "delete" ELSE "remove"]
    /\ UNCHANGED <<vector_store, object_registry, lastCall, before, missing_delete, nops, memory,
                   writer>>

\* thread t deletes the vector records; a delete that raises ends its call
WriterDeleteVectors(t) ==
    /\ writers[t].pc = "delete"
    /\ LET d == delete_all(vector_store, writers[t].obj.URI,
                           get_available_vector_ids_for_type(writers[t].obj.type),
                           missing_delete)
       IN  /\ vector_store' = d.points
           /\ writers' = [writers EXCEPT ![t].pc = IF d.raised THEN "done" ELSE "add_triple"]
    /\ UNCHANGED <<rdf_store, object_registry, lastCall, before, missing_delete, nops, memory,
                   writer>>

\* add_object, called by update_object of thread t, makes its next add_triple call
WriterAddTriple(t) ==
    /\ writers[t].pc = "add_triple"
    /\ writers[t].k < Len(add_triple_calls(writers[t].obj))
    /\ LET call == add_triple_calls(writers[t].obj)[writers[t].k + 1]
       IN  rdf_store' = add_triple(rdf_store, writers[t].obj.URI, call.predicate, call.obj,
                                   graph_uri)
    /\ writers' = [writers EXCEPT ![t].k = writers[t].k + 1]
    /\ UNCHANGED <<vector_store, object_registry, lastCall, before, missing_delete, nops, memory,
                   writer>>

\* add_object of thread t writes the vector records and the registry entry
\* and returns
WriterAddVectors(t) ==
    /\ writers[t].pc = "add_triple"
    /\ writers[t].k = Len(add_triple_calls(writers[t].obj))
    /\ vector_store' = add_vectors(vector_store, writers[t].obj.URI,
                                   graph_object_to_vector_data(writers[t].obj))
    /\ object_registry' = put(object_registry, writers[t].obj.URI, writers[t].obj.type)
    /\ writers' = [writers EXCEPT ![t].pc = "done", ![t].k = 0]
    /\ UNCHANGED <<rdf_store, lastCall, before, missing_delete, nops, memory, writer>>

NextWriters ==
    \/ \E o \in WriterObjects : WritersAddObject(o)
    \/ \E t \in Threads, o \in WriterObjects : WriterMatch(t, o)
    \/ \E t \in Threads, quad \in rdf_store : WriterRemoveQuad(t, quad)
    \/ \E t \in Threads : WriterDeleteVectors(t)
    \/ \E t \in Threads : WriterAddTriple(t)
    \/ \E t \in Threads : WriterAddVectors(t)

SpecWriters == Init /\ [][NextWriters]_vars

BothDone == \A t \in Threads : writers[t].pc = "done"

\* the property quads of version o of its subject
PropertyQuadsOf(o) ==
    add_graph_object_triples({}, o, graph_uri)
        \ add_graph_object_triples({}, [o EXCEPT !.name = None, !.desc = None], graph_uri)

\* the objects whose projections the stored records of a URI were derived from
PayloadVersions(points, uri) ==
    {o \in WriterObjects :
        \E i \in DOMAIN points :
            /\ points[i].payload.uri = uri
            /\ points[i].payload.props = property_values(o)}

\* both calls returned and the graph holds a property quad of each version
\* that the other version does not have, or the stored triples are those of
\* one version while a vector payload is that of the other
MixedVersions ==
    /\ BothDone
    /\ LET a == writers[1].obj
           b == writers[2].obj
       IN  \/ /\ (PropertyQuadsOf(a) \ PropertyQuadsOf(b)) \cap rdf_store # {}
              /\ (PropertyQuadsOf(b) \ PropertyQuadsOf(a)) \cap rdf_store # {}
           \/ \E o \in {a, b} :
                /\ get_triples(rdf_store, "urn:a", graph_uri)
                       = add_graph_object_triples({}, o, graph_uri)
                /\ PayloadVersions(vector_store, "urn:a") \ {o} # {}

\* C32: when the two update_object calls do not overlap, the state after both
\* is the state the later call alone makes of the state the first one
\* started on
C32_SerializedEqualsLater ==
    (Started /\ BothDone /\ lastCall.serial) =>
        State = Stores(update_object(before, lastCall.objs[2], missing_delete))


-----------------------------------------------------------------------------
(* Frame of update_object *)

\* the quads of a store whose subject is not uri
QuadsOfOthers(store, uri) == {q \in store : q[1] # NamedNode(uri)}

\* the records of a collection whose payload names another URI than uri
RecordsOfOthers(points, uri) == {i \in DOMAIN points : points[i].payload.uri # uri}

-----------------------------------------------------------------------------
(* Memory statistics: kgraph_memory.py, kgraph.py *)

\* KGraph.get_stats (KGraphBridge.get_stats returns that of its own KGraph):
\* count_triples, vector_store.count, len(_object_registry)
get_stats(S) ==
    [rdf_triple_count |-> Cardinality(S.rdf),
     vector_record_count |-> count(S.points),
     registered_objects |-> Cardinality(DOMAIN S.registry)]

RECURSIVE Sum(_)
\* the sum of the values of a map
Sum(f) ==
    IF DOMAIN f = {} THEN 0
    ELSE LET k == CHOOSE k \in DOMAIN f : TRUE
         IN  f[k] + Sum([j \in DOMAIN f \ {k} |-> f[j]])

\* get_memory_stats: the totals are summed over self._kgraphs.values(), the
\* bridge count and ids are taken from self._bridges
get_memory_stats(M) ==
    [total_kgraph_bridges |-> Cardinality(DOMAIN M.bridges),
     kgraph_bridge_ids |-> DOMAIN M.bridges,
     total_rdf_triples |->
         Sum([g \in DOMAIN M.kgraphs |-> get_stats(M.kgraphs[g]).rdf_triple_count]),
     total_vector_records |->
         Sum([g \in DOMAIN M.kgraphs |-> get_stats(M.kgraphs[g]).vector_record_count]),
     total_objects |->
         Sum([g \in DOMAIN M.kgraphs |-> get_stats(M.kgraphs[g]).registered_objects])]

\* clear_all: every KGraph of _kgraphs is cleared, then both dicts are emptied
clear_all(M) == [bridges |-> <<>>, kgraphs |-> <<>>]

GetMemoryStats ==
    /\ lastCall' = [MemoryCall("get_memory_stats", None) EXCEPT
                       !.stats = get_memory_stats(memory)]
    /\ UNCHANGED <<rdf_store, vector_store, object_registry, before, missing_delete, nops, memory,
                   writer, writers>>

ClearAll ==
    /\ nops < MaxMemoryOps
    /\ memory' = clear_all(memory)
    /\ lastCall' = MemoryCall("clear_all", None)
    /\ nops' = nops + 1
    /\ UNCHANGED <<rdf_store, vector_store, object_registry, before, missing_delete, writer,
                   writers>>

NextStats ==
    \/ \E g \in GraphIds : CreateKGraphBridge(g)
    \/ \E g \in GraphIds : RemoveKGraphBridge(g)
    \/ \E g \in GraphIds, o \in MemoryObjects : GraphAddObject(g, o)
    \/ GetMemoryStats
    \/ ClearAll

SpecStats == Init /\ [][NextStats]_vars

\* C34: get_memory_stats reports total_objects, total_rdf_triples and
\* total_vector_records equal to the sums of the get_stats values of the
\* bridges create_kgraph_bridge returned
C34_StatsReflectBridges ==
    lastCall.op = "get_memory_stats" =>
        /\ lastCall.stats.total_objects =
               Sum([g \in DOMAIN memory.bridges |->
                       get_stats(memory.bridges[g]).registered_objects])
        /\ lastCall.stats.total_rdf_triples =
               Sum([g \in DOMAIN memory.bridges |->
                       get_stats(memory.bridges[g]).rdf_triple_count])
        /\ lastCall.stats.total_vector_records =
               Sum([g \in DOMAIN memory.bridges |->
                       get_stats(memory.bridges[g]).vector_record_count])


-----------------------------------------------------------------------------
(* Order of adds: kgraph.py *)

RECURSIVE add_objects_in_order(_, _)
\* the loop of add_objects, "for obj in graph_objects: self.add_object(obj)",
\* when no call fails: the stores after the last call
add_objects_in_order(S, graph_objects) ==
    IF graph_objects = <<>> THEN S
    ELSE add_objects_in_order(Stores(add_object(S, Head(graph_objects))), Tail(graph_objects))

\* the pairs of objects added one after the other: a version of "urn:a" and
\* a version of "urn:b"
FirstObjects == {o \in GraphObjects : o.URI = "urn:a" /\ o.ref = None}
SecondObjects == {o \in GraphObjects : o.URI = "urn:b"}

\* the graph is filled before the pair is added
CommuteAddObject(o) ==
    /\ lastCall.op # "add_objects"
    /\ nops < MaxCommuteOps
    /\ AddObject(o)

CommuteRemoveObject(uri) ==
    /\ lastCall.op # "add_objects"
    /\ nops < MaxCommuteOps
    /\ RemoveObject(uri)

\* add_object(a) followed by add_object(b)
AddObjectsInOrder(a, b) ==
    /\ lastCall.op # "add_objects"
    /\ LET R == add_objects_in_order(State, <<a, b>>)
       IN  /\ rdf_store' = R.rdf
           /\ vector_store' = R.points
           /\ object_registry' = R.registry
    /\ lastCall' = [NoCall EXCEPT !.op = "add_objects", !.objs = <<a, b>>, !.count = 2]
    /\ before' = State
    /\ UNCHANGED <<missing_delete, nops, memory, writer, writers>>

NextCommute ==
    \/ \E o \in GraphObjects : CommuteAddObject(o)
    \/ \E u \in URIs : CommuteRemoveObject(u)
    \/ \E a \in FirstObjects, b \in SecondObjects : AddObjectsInOrder(a, b)

SpecCommute == Init /\ [][NextCommute]_vars

-----------------------------------------------------------------------------
(* update_triple: kgraph_rdf_db.py *)

\* what can go wrong inside the add_triple call of update_triple: with "add"
\* the conversion of a new term raises (_to_rdf_term raises ValueError for a
\* term that is neither a str nor an RDF term) or store.add raises; add_triple
\* catches it, writes nothing and returns False
UpdateFaults == {NoFault, "add"}

\* update_triple: [rdf, ret]. The old triple is removed first; only if
\* something was removed is the new one added, and the result of add_triple
\* is the result of the call
update_triple(store, old_subject, old_predicate, old_object, new_subject, new_predicate, new_object, graph, fault) ==
    LET removed == remove_triple_returns(store, old_subject, old_predicate, old_object, graph)
        rdf1 == remove_triple(store, old_subject, old_predicate, old_object, graph)
    IN  IF removed > 0
        THEN IF fault = "add"
             THEN [rdf |-> rdf1, ret |-> FALSE]
             ELSE [rdf |-> add_triple(rdf1, new_subject, new_predicate,
                                      to_rdf_term(new_object, TRUE, FALSE), graph),
                   ret |-> add_triple_returns(rdf1, new_subject, new_predicate,
                                              to_rdf_term(new_object, TRUE, FALSE), graph)]
        ELSE [rdf |-> rdf1, ret |-> FALSE]

\* the (subject, predicate, object) triples the callers name
Triples == TripleSubjects \X TriplePredicates \X TripleObjects

\* the quad a triple of str terms stands for in the graph of the model
QuadOf(t) ==
    Quad(to_rdf_term(t[1], FALSE, FALSE), to_rdf_term(t[2], FALSE, TRUE),
         to_rdf_term(t[3], TRUE, FALSE), to_rdf_term(graph_uri, FALSE, TRUE))

UpdateTriple(old, new, fault) ==
    /\ nops < MaxTripleOps
    /\ LET R == update_triple(rdf_store, old[1], old[2], old[3], new[1], new[2], new[3],
                              graph_uri, fault)
       IN  /\ rdf_store' = R.rdf
           /\ lastCall' = [NoCall EXCEPT !.op = "update_triple", !.quad = QuadOf(old),
                                         !.new_quad = QuadOf(new), !.fault = fault,
                                         !.ret = R.ret]
    /\ before' = State
    /\ nops' = nops + 1
    /\ UNCHANGED <<vector_store, object_registry, missing_delete, memory, writer, writers>>

NextUpdateTriple ==
    \/ \E s \in TripleSubjects, p \in TriplePredicates, o \in TripleObjects :
          AddTriple(s, p, o)
    \/ \E s \in TripleSubjects, p \in TriplePredicates, o \in TripleObjects :
          RemoveTriple(s, p, o)
    \/ \E old \in Triples, new \in Triples, fault \in UpdateFaults :
          UpdateTriple(old, new, fault)

SpecUpdateTriple == Init /\ [][NextUpdateTriple]_vars

\* C36: update_triple returns False and leaves the store unchanged when the
\* old triple is not present; when it is present the store afterwards holds
\* the new triple and not the old one, and it never happens that the old
\* triple was removed, the new one is absent and True is returned
C36_UpdateTriple ==
    lastCall.op = "update_triple" =>
        IF lastCall.quad \notin before.rdf
        THEN /\ lastCall.ret = FALSE
             /\ rdf_store = before.rdf
        ELSE /\ lastCall.new_quad \in rdf_store
             /\ lastCall.new_quad # lastCall.quad => lastCall.quad \notin rdf_store
             /\ ~(/\ lastCall.quad \notin rdf_store
                  /\ lastCall.new_quad \notin rdf_store
                  /\ lastCall.ret = TRUE)


-----------------------------------------------------------------------------
(* The filters dict of the caller: kgraph.py *)

\* the dict the caller builds and hands to vector_search_by_type: empty, a
\* filter on the type, a filter that names a vector_id
CallerFilters == {<<>>, [type |-> T1], [vector_id |-> "description"]}

\* vector_search_by_type(query_text, vector_id, limit, filters) with a dict
\* for filters: "filters['vector_id'] = vector_id" is an assignment to the
\* dict object of the caller; the call record keeps the dict as the caller
\* built it (filters) and as it is after the call (filters_after)
VectorSearchByTypeWith(order, vector_id, filters, limit) ==
    /\ lastCall' = [NoCall EXCEPT !.op = "vector_search_by_type", !.vector_id = vector_id,
                                  !.filters = filters, !.limit = limit,
                                  !.filters_after = with_vector_id(filters, vector_id),
                                  !.results = vector_search_by_type(vector_store, order,
                                                                    vector_id, limit, filters)]
    /\ before' = State
    /\ UNCHANGED <<rdf_store, vector_store, object_registry, missing_delete, nops, memory, writer,
                   writers>>

\* vector_search with the dict of the call before: it is passed on to
\* search_by_text as it is now and is not assigned to
VectorSearchReusing(order, limit) ==
    /\ lastCall.op = "vector_search_by_type"
    /\ lastCall' = [NoCall EXCEPT !.op = "vector_search", !.limit = limit, !.order = order,
                                  !.filters = lastCall.filters,
                                  !.filters_after = lastCall.filters_after,
                                  !.results = search_by_text(vector_store, order, limit,
                                                             lastCall.filters_after)]
    /\ before' = State
    /\ UNCHANGED <<rdf_store, vector_store, object_registry, missing_delete, nops, memory, writer,
                   writers>>

NextFilters ==
    \/ \E o \in GraphObjects : SearchAddObject(o)
    \/ \E order \in Orders(DOMAIN vector_store), v \in Range(VectorIdOrder),
          vf \in CallerFilters, limit \in 1..MaxLimit :
            VectorSearchByTypeWith(order, v, vf, limit)
    \/ \E order \in Orders(DOMAIN vector_store), limit \in 1..MaxLimit :
            VectorSearchReusing(order, limit)

SpecFilters == Init /\ [][NextFilters]_vars

\* C37: after vector_search_by_type the filters map the caller passed in has
\* the keys and values it had before the call, so a later vector_search
\* with the same map returns what a search with the map as built returns
C37_FiltersUnchanged ==
    /\ lastCall.op = "vector_search_by_type" => lastCall.filters_after = lastCall.filters
    /\ lastCall.op = "vector_search" =>
           lastCall.results = search_by_text(vector_store, lastCall.order, lastCall.limit,
                                             lastCall.filters)

====
